---------------------------- MODULE Spec2Model ----------------------------
(***************************************************************************)
(* State-machine model of the solana-hyper-bot decision core:              *)
(*   - PrincipiaEngine  (src/principia-engine.js)                          *)
(*   - TradeExecutor    (src/trade-executor.js)                            *)
(*   - MarketData       (src/market-data.js), with its periodic updates    *)
(*   - the trading loop, the watcher of config.json and the configuration  *)
(*     reload of main()  (src/index.js)                                    *)
(*                                                                         *)
(* Numbers.  The JavaScript code computes with reals (doubles).  Every     *)
(* dimensionless quantity and every SOL amount of the model (signal,       *)
(* force, momentum, position size, thresholds, masses, ratios, portfolio   *)
(* value, minimum trade size) is an integer count of 1/10000, so 0.15 is   *)
(* 1500 and 1.0 is 10000.  Prices and volumes are whole numbers.  The      *)
(* input sets are chosen so that every product and quotient the engine     *)
(* forms is exact in these units.                                          *)
(***************************************************************************)
EXTENDS Integers, Sequences, FiniteSets

VARIABLES
    \* ---- PrincipiaEngine (this.*) ----
    engineConfig,     \* this.config
    currentPosition,  \* this.currentPosition: "long" | "short" | "neutral"
    positionSize,     \* this.positionSize
    momentum,         \* this.momentum
    priceHistory,     \* this.priceHistory
    lastAction,       \* this.lastAction
    marketData,       \* the argument of the latest analyzeMarket call
    decision,         \* the value the latest analyzeMarket call returned
    calls,            \* number of analyzeMarket calls made so far
    engineOp,         \* the engine method invoked in the latest engine step
    fed,              \* the prices analyzeMarket was given since construction
                      \* or the last reset, and whether momentumPeriod stayed
                      \* as it was while they were given (kept by MomentumSpec)
    \* ---- TradeExecutor (this.*) ----
    execConfig,       \* this.config
    tradeHistory,     \* this.tradeHistory
    inflight,         \* executeSwap calls suspended at `await this.getQuote`
    result,           \* the value the latest finished executeBuy/Sell returned
    stats,            \* the value getStatistics returned in the latest step
    recent,           \* the value getTradeHistory returned in the latest step
    started,          \* number of executeBuy/executeSell calls begun so far
    \* ---- MarketData (this.*) ----
    marketConfig,     \* this.config
    lastPrices,       \* this.lastPrices: pair -> price
    marketPriceHistory, \* this.priceHistory: pair -> prices
    observation,      \* the value the latest getMarketData call returned
    fetched,          \* number of getMarketData calls made so far, per pair
    updateTimer,      \* this.updateTimer
    intervals,        \* the interval timers startUpdates set that were not
                      \* cleared
    updates,          \* what the periodic updates did so far: intervals set,
                      \* ticks run, callbacks invoked, and whether
                      \* stopUpdates was the latest of the two calls
    \* ---- main() ----
    config,           \* config: the loaded configuration
    iterationCount,   \* iterationCount
    cycle,            \* per timer tick: where its async callback stands
    tradingPair,      \* const tradingPair of the trading loop
    tradingLoop,      \* the interval timer of the trading loop: its delay
    mainOp,           \* the callback of main() that ran in the latest step
    reloads,          \* number of reloadConfig runs so far
    clock,            \* the time since main() set up the file watcher, in ms
    timers,           \* the timeouts set by the file watcher and not yet
                      \* fired or cleared
    configWatchDebounce, \* let configWatchDebounce: the latest timeout
    changes,          \* the times of the 'change' events of config.json
    runs              \* the times at which reloadConfig ran

engineVars == <<engineConfig, currentPosition, positionSize, momentum,
                priceHistory, lastAction, marketData, decision, calls,
                engineOp, fed>>
execVars   == <<execConfig, tradeHistory, inflight, result, stats, recent,
                started>>
updateVars == <<updateTimer, intervals, updates>>
marketVars == <<marketConfig, lastPrices, marketPriceHistory, observation,
                fetched, updateVars>>
watchVars  == <<clock, timers, configWatchDebounce, changes, runs>>
loopVars   == <<config, iterationCount, cycle, tradingPair, tradingLoop,
                mainOp, reloads, watchVars>>
vars       == <<engineVars, execVars, marketVars, loopVars>>

-----------------------------------------------------------------------------
(* Fixed-point helpers: reals as counts of 1/10000.                        *)

Abs(x) == IF x < 0 THEN -x ELSE x

Min2(a, b) == IF a < b THEN a ELSE b

Max2(a, b) == IF a > b THEN a ELSE b

\* a * b for two scaled reals
Mul(a, b) == (a * b) \div 10000

\* a / b for two scaled reals
Div(a, b) == (a * 10000) \div b

\* Math.max(lo, Math.min(hi, x))
Clamp(lo, hi, x) == Max2(lo, Min2(hi, x))

-----------------------------------------------------------------------------
(* Model bounds and input sets.                                            *)

\* analyzeMarket calls explored per behaviour (EngineSpec)
MaxCalls == 3

\* Configurations the engine is constructed with.  momentumPeriod is kept
\* small so that the window fills and evicts within MaxCalls calls.
EngineConfigs ==
    { [inertiaThreshold |-> 1500, tradingMass |-> 10000,
       riskReactionRatio |-> 10000, gravitationalConstant |-> 10,
       momentumPeriod |-> 2, maxPositionSize |-> 3000],
      [inertiaThreshold |-> 1500, tradingMass |-> 20000,
       riskReactionRatio |-> 20000, gravitationalConstant |-> 10,
       momentumPeriod |-> 2, maxPositionSize |-> 5000] }

Prices == {100, 125}

\* -0.75, 0.10, 0.75 and the out-of-range 2.0 of the engine's own test 7
Signals == {-7500, 1000, 7500, 20000}

\* no level; one level (zero distance from price 100); one heavy level whose
\* raw force exceeds 1
KeyLevelLists ==
    { << >>,
      << [price |-> 100, volume |-> 12500] >>,
      << [price |-> 100, volume |-> 1000000] >> }

\* 0, 1.0 and 2.0 SOL
PortfolioValues == {0, 10000, 20000}

Observations ==
    [price : Prices, signalStrength : Signals, keyLevels : KeyLevelLists,
     portfolioValue : PortfolioValues]

\* The observations fed to an engine that is also reconfigured and reset.
LifecycleObservations ==
    [price : Prices, signalStrength : {-7500, 1000, 7500},
     keyLevels : {<< >>}, portfolioValue : {10000, 20000}]

\* Key levels around the price 95: none; a heavy support at 94; a light
\* level at 95; a level of middle weight at 100; the last two together; a
\* heavy resistance at 96; the level at 100 against a closer one at 93.
GravityLevelLists ==
    { << >>,
      << [price |-> 94, volume |-> 10000] >>,
      << [price |-> 95, volume |-> 100] >>,
      << [price |-> 100, volume |-> 2500] >>,
      << [price |-> 100, volume |-> 2500], [price |-> 95, volume |-> 100] >>,
      << [price |-> 96, volume |-> 10000] >>,
      << [price |-> 100, volume |-> 2500], [price |-> 93, volume |-> 1200] >> }

\* The observations fed to an engine near key levels, at the price 95:
\* every distance to a level is 0, 1, 2 or 5, whose squares divide
\* gravitationalConstant x volume.
GravityObservations ==
    [price : {95}, signalStrength : {-7500, 7500},
     keyLevels : GravityLevelLists, portfolioValue : {10000}]

\* The observations fed to an engine whose prices are kept on record: a weak
\* and a strong signal at either price.
MomentumObservations ==
    [price : Prices, signalStrength : {1000, 7500}, keyLevels : {<< >>},
     portfolioValue : {10000}]

\* Observations that lack signalStrength.
IncompleteObservations ==
    [price : Prices, keyLevels : {<< >>}, portfolioValue : {10000}]

\* Partial configurations given to updateConfig: a shorter momentum window,
\* a higher position limit, a higher threshold together with the lower
\* position limit.
ConfigUpdates ==
    { [momentumPeriod |-> 1],
      [maxPositionSize |-> 5000],
      [inertiaThreshold |-> 5000, maxPositionSize |-> 3000] }

-----------------------------------------------------------------------------
(* PrincipiaEngine                                                         *)

NoDecision == [action |-> "none", reason |-> "none"]

\* the number NaN, which no count of 1/10000 stands for
NaN == "NaN"

NoAction == [action |-> "none"]

NothingFed == [prices |-> << >>, fixed |-> TRUE]

\* `fed` once the momentum period is set to `period`
FedUnder(period) ==
    [fed EXCEPT !.fixed = @ /\ (fed.prices = << >>
                                    \/ period = engineConfig.momentumPeriod)]

\* a plausible slip: the comparison of overcomesInertia turned round
overcomesInertia_Inverted(cfg, signalStrength) ==
    Abs(signalStrength) <= cfg.inertiaThreshold

\* LAW I: force >= threshold
overcomesInertia(cfg, signalStrength) ==
    Abs(signalStrength) >= cfg.inertiaThreshold

\* LAW II: a = F / m
calculateAcceleration(cfg, force) == Div(force, cfg.tradingMass)

\* a plausible slip: the profit target at 100% in place of 150%
calculateReaction_LowTarget(cfg, size) ==
    [stopLoss   |-> Mul(Mul(size, cfg.riskReactionRatio), 5000),
     takeProfit |-> Mul(Mul(size, cfg.riskReactionRatio), 10000),
     hedgeSize  |-> Mul(Mul(size, cfg.riskReactionRatio), 2000)]

\* a plausible slip: the hedge at 10% in place of 20%
calculateReaction_SmallHedge(cfg, size) ==
    [stopLoss   |-> Mul(Mul(size, cfg.riskReactionRatio), 5000),
     takeProfit |-> Mul(Mul(size, cfg.riskReactionRatio), 15000),
     hedgeSize  |-> Mul(Mul(size, cfg.riskReactionRatio), 1000)]

\* LAW III: stop loss, take profit and hedge of a position size
calculateReaction(cfg, size) ==
    [stopLoss   |-> Mul(Mul(size, cfg.riskReactionRatio), 5000),
     takeProfit |-> Mul(Mul(size, cfg.riskReactionRatio), 15000),
     hedgeSize  |-> Mul(Mul(size, cfg.riskReactionRatio), 2000)]

\* the loop body of calculateGravitationalForce, summed over the levels
RECURSIVE totalForce(_, _, _)
totalForce(cfg, currentPrice, keyLevels) ==
    IF keyLevels = << >> THEN 0
    ELSE LET level    == Head(keyLevels)
             distance == Abs(currentPrice - level.price)
             rest     == totalForce(cfg, currentPrice, Tail(keyLevels))
         IN  IF distance = 0 THEN rest
             ELSE LET force == (cfg.gravitationalConstant * level.volume)
                                   \div (distance * distance)
                      direction == IF level.price > currentPrice THEN 1 ELSE -1
                  IN  force * direction + rest

\* a plausible slip: the sum returned without the clamp to [-1, 1]
calculateGravitationalForce_Unclamped(cfg, currentPrice, keyLevels) ==
    totalForce(cfg, currentPrice, keyLevels)

\* calculateGravitationalForce: the sum normalized to the range -1 to 1
calculateGravitationalForce(cfg, currentPrice, keyLevels) ==
    Clamp(-10000, 10000, totalForce(cfg, currentPrice, keyLevels))

\* a plausible slip: updateMomentum without the shift() that evicts
updateMomentum_NoEviction(cfg, history, currentPrice) ==
    LET kept == Append(history, currentPrice)
    IN  IF Len(kept) < 2
        THEN [priceHistory |-> kept, momentum |-> 0]
        ELSE [priceHistory |-> kept,
              momentum |-> Mul(cfg.tradingMass,
                               ((currentPrice - kept[1]) * 10000)
                                   \div kept[1])]

\* a plausible slip: the price change taken relative to the current price
updateMomentum_OverCurrent(cfg, history, currentPrice) ==
    LET pushed == Append(history, currentPrice)
        kept   == IF Len(pushed) > cfg.momentumPeriod THEN Tail(pushed)
                  ELSE pushed
    IN  IF Len(kept) < 2
        THEN [priceHistory |-> kept, momentum |-> 0]
        ELSE [priceHistory |-> kept,
              momentum |-> Mul(cfg.tradingMass,
                               ((currentPrice - kept[1]) * 10000)
                                   \div currentPrice)]

\* updateMomentum: the new priceHistory and momentum
updateMomentum(cfg, history, currentPrice) ==
    LET pushed == Append(history, currentPrice)
        kept   == IF Len(pushed) > cfg.momentumPeriod THEN Tail(pushed)
                  ELSE pushed
    IN  IF Len(kept) < 2
        THEN [priceHistory |-> kept, momentum |-> 0]
        ELSE LET oldPrice == kept[1]
                 velocity == ((currentPrice - oldPrice) * 10000) \div oldPrice
             IN  [priceHistory |-> kept,
                  momentum |-> Mul(cfg.tradingMass, velocity)]

\* a plausible slip: the weights 0.5, 0.3 and 0.2
combinedForceOf_OtherWeights(signalStrength, mom, grav) ==
    Mul(signalStrength, 5000) + Mul(mom, 3000) + Mul(grav, 2000)

\* signalStrength * 0.6 + momentum * 0.2 + gravitationalForce * 0.2
combinedForceOf(signalStrength, mom, grav) ==
    Mul(signalStrength, 6000) + Mul(mom, 2000) + Mul(grav, 2000)

\* a plausible slip: only the upper position limit applied
applyPositionLimits_UpperOnly(cfg, portfolioValue, newPositionSize) ==
    Min2(Mul(portfolioValue, cfg.maxPositionSize), newPositionSize)

\* "Apply position limits": Math.max(-maxSize, Math.min(maxSize, size))
applyPositionLimits(cfg, portfolioValue, newPositionSize) ==
    LET maxSize == Mul(portfolioValue, cfg.maxPositionSize)
    IN  Clamp(-maxSize, maxSize, newPositionSize)

\* The engine as a record, for the operators below.
Engine(cfg, pos, size, mom, hist, last) ==
    [config |-> cfg, currentPosition |-> pos, positionSize |-> size,
     momentum |-> mom, priceHistory |-> hist, lastAction |-> last]

\* a plausible slip: the action decided without the dead band of 0.01
determineAction_NoDeadBand(size, newPositionSize) ==
    IF newPositionSize >= size THEN "buy"
    ELSE "sell"

\* "Determine action based on position change": the action
determineAction(size, newPositionSize) ==
    IF newPositionSize > size + 100 THEN "buy"
    ELSE IF newPositionSize < size - 100 THEN "sell"
    ELSE "hold"

\* a plausible slip: a sale down to exactly zero labelled long
determinePosition_NeverNeutral(action, newPositionSize, position) ==
    IF action = "buy" THEN "long"
    ELSE IF action = "sell"
         THEN (IF newPositionSize < 0 THEN "short" ELSE "long")
    ELSE position

\* "Determine action based on position change": the position label
determinePosition(action, newPositionSize, position) ==
    IF action = "buy" THEN "long"
    ELSE IF action = "sell"
         THEN (IF newPositionSize < 0 THEN "short"
               ELSE IF newPositionSize = 0 THEN "neutral"
               ELSE "long")
    ELSE position

\* analyzeMarket behind the inertia gate, up to its state update: LAW II,
\* the position limits, the action and position label, LAW III and the
\* position change; e1 is the engine with its momentum updated.
gateOutcome(e1, md, combinedForce) ==
    LET cfg == e1.config
        acceleration == calculateAcceleration(cfg, combinedForce)
        newPositionSize ==
            applyPositionLimits(cfg, md.portfolioValue,
                                e1.positionSize + acceleration)
        action == determineAction(e1.positionSize, newPositionSize)
    IN  [acceleration |-> acceleration,
         newPositionSize |-> newPositionSize,
         action |-> action,
         newPosition |->
             determinePosition(action, newPositionSize, e1.currentPosition),
         riskManagement |-> calculateReaction(cfg, Abs(newPositionSize)),
         positionChange |-> newPositionSize - e1.positionSize]

\* a plausible slip: the new size committed only when the action is not hold
afterGate_HoldKeepsSize(e1, md, combinedForce, now, grav) ==
    LET o == gateOutcome(e1, md, combinedForce)
    IN  [engine   |-> [e1 EXCEPT !.currentPosition = o.newPosition,
                                 !.positionSize =
                                     IF o.action = "hold" THEN @
                                     ELSE o.newPositionSize,
                                 !.lastAction =
                                     [action |-> o.action,
                                      timestamp |-> now,
                                      price |-> md.price]],
         decision |-> [action |-> o.action, reason |-> "overcame",
                       position |-> o.newPosition,
                       positionSize |-> o.newPositionSize,
                       positionChange |-> o.positionChange,
                       force |-> combinedForce,
                       acceleration |-> o.acceleration,
                       momentum |-> e1.momentum,
                       gravitationalForce |-> grav,
                       riskManagement |-> o.riskManagement]]

\* a plausible slip: riskManagement returned only with a buy or a sell
afterGate_NoRiskOnHold(e1, md, combinedForce, now, grav) ==
    LET o == gateOutcome(e1, md, combinedForce)
        engine == [e1 EXCEPT !.currentPosition = o.newPosition,
                             !.positionSize = o.newPositionSize,
                             !.lastAction =
                                 [action |-> o.action,
                                  timestamp |-> now,
                                  price |-> md.price]]
        report == [action |-> o.action, reason |-> "overcame",
                   position |-> o.newPosition,
                   positionSize |-> o.newPositionSize,
                   positionChange |-> o.positionChange,
                   force |-> combinedForce,
                   acceleration |-> o.acceleration,
                   momentum |-> e1.momentum,
                   gravitationalForce |-> grav]
    IN  [engine   |-> engine,
         decision |-> IF o.action = "hold" THEN report
                      ELSE [k \in DOMAIN report \cup {"riskManagement"} |->
                               IF k = "riskManagement" THEN o.riskManagement
                               ELSE report[k]]]

\* analyzeMarket behind the inertia gate: the state update and the returned
\* decision
afterGate(e1, md, combinedForce, now, grav) ==
    LET o == gateOutcome(e1, md, combinedForce)
    IN  [engine   |-> [e1 EXCEPT !.currentPosition = o.newPosition,
                                 !.positionSize = o.newPositionSize,
                                 !.lastAction =
                                     [action |-> o.action,
                                      timestamp |-> now,
                                      price |-> md.price]],
         decision |-> [action |-> o.action, reason |-> "overcame",
                       position |-> o.newPosition,
                       positionSize |-> o.newPositionSize,
                       positionChange |-> o.positionChange,
                       force |-> combinedForce,
                       acceleration |-> o.acceleration,
                       momentum |-> e1.momentum,
                       gravitationalForce |-> grav,
                       riskManagement |-> o.riskManagement]]

\* analyzeMarket(marketData) on engine e at time `now`: the engine it leaves
\* and the decision it returns.
analyzeMarket(e, md, now) ==
    LET cfg   == e.config
        um    == updateMomentum(cfg, e.priceHistory, md.price)
        grav  == calculateGravitationalForce(cfg, md.price, md.keyLevels)
        combinedForce == combinedForceOf(md.signalStrength, um.momentum, grav)
        e1    == [e EXCEPT !.priceHistory = um.priceHistory,
                           !.momentum = um.momentum]
    IN  IF ~overcomesInertia(cfg, combinedForce)
        THEN [engine   |-> e1,
              decision |-> [action |-> "hold", reason |-> "inertia",
                            force |-> combinedForce,
                            inertiaThreshold |-> cfg.inertiaThreshold,
                            currentPosition |-> e.currentPosition,
                            positionSize |-> e.positionSize]]
        ELSE afterGate(e1, md, combinedForce, now, grav)

\* analyzeMarket(marketData) for a marketData without signalStrength: the
\* momentum is updated from the price, then undefined * 0.6 makes
\* combinedForce NaN, NaN >= inertiaThreshold is false and the call returns
\* through the inertia gate.
analyzeMarketWithoutSignal(e, md) ==
    LET cfg == e.config
        um  == updateMomentum(cfg, e.priceHistory, md.price)
    IN  [engine   |-> [e EXCEPT !.priceHistory = um.priceHistory,
                                !.momentum = um.momentum],
         decision |-> [action |-> "hold", reason |-> "inertia",
                       force |-> NaN,
                       inertiaThreshold |-> cfg.inertiaThreshold,
                       currentPosition |-> e.currentPosition,
                       positionSize |-> e.positionSize],
         completion |-> "return"]

\* a plausible slip: updateConfig that replaces the configuration, keys not
\* supplied falling back to the constructor's defaults
updateConfig_Replace(cfg, newConfig) ==
    LET defaults == [inertiaThreshold |-> 1500, tradingMass |-> 10000,
                     riskReactionRatio |-> 10000,
                     gravitationalConstant |-> 10, momentumPeriod |-> 20,
                     maxPositionSize |-> 3000]
    IN  [k \in DOMAIN cfg |->
            IF k \in DOMAIN newConfig THEN newConfig[k] ELSE defaults[k]]

\* updateConfig(newConfig): { ...this.config, ...newConfig }
updateConfig(cfg, newConfig) ==
    [k \in DOMAIN cfg \cup DOMAIN newConfig |->
        IF k \in DOMAIN newConfig THEN newConfig[k] ELSE cfg[k]]

\* a plausible slip: reset that forgets to empty priceHistory
reset_KeepsHistory(e) ==
    [e EXCEPT !.currentPosition = "neutral", !.positionSize = 0,
              !.momentum = 0, !.lastAction = NoAction]

\* reset()
reset(e) ==
    [e EXCEPT !.currentPosition = "neutral", !.positionSize = 0,
              !.momentum = 0, !.priceHistory = << >>,
              !.lastAction = NoAction]

\* The engine new PrincipiaEngine(cfg) constructs.
FreshEngine(cfg) == Engine(cfg, "neutral", 0, 0, << >>, NoAction)

\* new PrincipiaEngine(config)
EngineInit(cfg) ==
    /\ engineConfig = cfg
    /\ currentPosition = "neutral"
    /\ positionSize = 0
    /\ momentum = 0
    /\ priceHistory = << >>
    /\ lastAction = NoAction
    /\ marketData = [price |-> 0]
    /\ decision = NoDecision
    /\ calls = 0
    /\ engineOp = [op |-> "new"]
    /\ fed = NothingFed

ThisEngine ==
    Engine(engineConfig, currentPosition, positionSize, momentum,
           priceHistory, lastAction)

\* The assignments one analyzeMarket(md) call makes to the engine.
EngineCall(md) ==
    LET r == analyzeMarket(ThisEngine, md, calls + 1)
    IN  /\ currentPosition' = r.engine.currentPosition
        /\ positionSize' = r.engine.positionSize
        /\ momentum' = r.engine.momentum
        /\ priceHistory' = r.engine.priceHistory
        /\ lastAction' = r.engine.lastAction
        /\ marketData' = md
        /\ decision' = r.decision
        /\ calls' = calls + 1
        /\ engineOp' = [op |-> "analyzeMarket", completion |-> "return"]
        /\ UNCHANGED engineConfig

\* A caller invokes engine.analyzeMarket(md).
AnalyzeMarket ==
    /\ calls < MaxCalls
    /\ \E md \in Observations : EngineCall(md)
    /\ UNCHANGED fed
    /\ UNCHANGED <<execVars, marketVars, loopVars>>

\* A caller invokes engine.analyzeMarket(md) on an engine that is also
\* reconfigured and reset.
AnalyzeMarketAgain ==
    /\ calls < MaxCalls
    /\ \E md \in LifecycleObservations : EngineCall(md)
    /\ UNCHANGED fed
    /\ UNCHANGED <<execVars, marketVars, loopVars>>

\* A caller invokes engine.analyzeMarket(md) with key levels near the price.
AnalyzeMarketNearLevels ==
    /\ calls < MaxCalls
    /\ \E md \in GravityObservations : EngineCall(md)
    /\ UNCHANGED fed
    /\ UNCHANGED <<execVars, marketVars, loopVars>>

\* A caller invokes engine.analyzeMarket(md) with an observation that has no
\* signalStrength.
AnalyzeMarketIncomplete ==
    /\ calls < MaxCalls
    /\ \E md \in IncompleteObservations :
           LET r == analyzeMarketWithoutSignal(ThisEngine, md)
           IN  /\ currentPosition' = r.engine.currentPosition
               /\ positionSize' = r.engine.positionSize
               /\ momentum' = r.engine.momentum
               /\ priceHistory' = r.engine.priceHistory
               /\ lastAction' = r.engine.lastAction
               /\ marketData' = md
               /\ decision' = r.decision
               /\ engineOp' = [op |-> "analyzeMarket",
                               completion |-> r.completion]
    /\ calls' = calls + 1
    /\ UNCHANGED <<engineConfig, fed>>
    /\ UNCHANGED <<execVars, marketVars, loopVars>>

\* The assignments one updateConfig(newConfig) call makes to the engine.
EngineUpdateConfig(newConfig) ==
    /\ engineConfig' = updateConfig(engineConfig, newConfig)
    /\ engineOp' = [op |-> "updateConfig", newConfig |-> newConfig]
    /\ UNCHANGED <<currentPosition, positionSize, momentum, priceHistory,
                   lastAction, marketData, decision, calls>>

\* A caller invokes engine.updateConfig(newConfig).
UpdateConfig ==
    /\ \E newConfig \in ConfigUpdates : EngineUpdateConfig(newConfig)
    /\ UNCHANGED fed
    /\ UNCHANGED <<execVars, marketVars, loopVars>>

\* The assignments one reset() call makes to the engine.
EngineReset ==
    /\ LET e == reset(ThisEngine)
       IN  /\ engineConfig' = e.config
           /\ currentPosition' = e.currentPosition
           /\ positionSize' = e.positionSize
           /\ momentum' = e.momentum
           /\ priceHistory' = e.priceHistory
           /\ lastAction' = e.lastAction
    /\ engineOp' = [op |-> "reset"]
    /\ UNCHANGED <<marketData, decision, calls>>

\* A caller invokes engine.reset().
Reset ==
    /\ EngineReset
    /\ UNCHANGED fed
    /\ UNCHANGED <<execVars, marketVars, loopVars>>

\* The same three calls on an engine whose fed prices are kept on record.
AnalyzeMarketFed ==
    /\ calls < MaxCalls
    /\ \E md \in MomentumObservations :
           /\ EngineCall(md)
           /\ fed' = [fed EXCEPT !.prices = Append(@, md.price)]
    /\ UNCHANGED <<execVars, marketVars, loopVars>>

UpdateConfigFed ==
    /\ \E newConfig \in ConfigUpdates :
           /\ EngineUpdateConfig(newConfig)
           /\ fed' = FedUnder(updateConfig(engineConfig,
                                           newConfig).momentumPeriod)
    /\ UNCHANGED <<execVars, marketVars, loopVars>>

ResetFed ==
    /\ EngineReset
    /\ fed' = NothingFed
    /\ UNCHANGED <<execVars, marketVars, loopVars>>

-----------------------------------------------------------------------------
(* TradeExecutor                                                           *)

\* executeBuy/executeSell calls explored per behaviour (ExecutorSpec)
MaxExecutes == 2

\* Base units per SOL.  The source constant is 10^9; the model keeps three
\* decimal digits of it so that portfolioValue * size * LAMPORTS_PER_SOL
\* stays within TLC's integers and still has a fractional part for
\* Math.floor to cut.
LAMPORTS_PER_SOL == 1000

PRICE_IMPACT_FACTOR == 500

SOL_MINT == "So11111111111111111111111111111111111111112"

USDC_MINT == "EPjFWdd5AufqSSqeM2qN1xzybapC8G4wEGGkZwyTDt1v"

\* Configurations the executor is constructed with: dry run or live, a
\* minimum of 0.01 SOL (10 base units) or 0.0015 SOL (1.5 base units), on the
\* primary network or on devnet.
ExecConfigs ==
    [dryRun : BOOLEAN, minTradeSize : {100, 15},
     network : {"mainnet-beta", "devnet"}, slippageBps : {50}]

\* portfolioValue argument: 1.0 SOL
ExecPortfolioValues == {10000}

\* size arguments: 0.0017, 0.01 and 0.1
ExecSizes == {17, 100, 1000}

\* count arguments of getTradeHistory
HistoryCounts == {0, 1, 2, 3}

\* What the HTTP quote provider can answer: the request fails, the body is
\* not JSON, the body is the JSON value null, or a quote object.
QuoteResponses ==
    { [kind |-> "rejected", message |-> "Failed to fetch quote"],
      [kind |-> "rejected", message |-> "Failed to parse quote"],
      [kind |-> "null"],
      [kind |-> "quote", outAmount |-> 990, priceImpactPct |-> 1000] }

NotRequested == [kind |-> "notRequested"]

NoResult == [call |-> 0]

NoStats == [totalTrades |-> -1]

NoRecent == [count |-> -1]

\* Math.floor(portfolioValue * size * LAMPORTS_PER_SOL); the product of the
\* two scaled reals counts 1/100000000.
swapAmount(portfolioValue, size) ==
    (portfolioValue * size) \div (100000000 \div LAMPORTS_PER_SOL)

\* a plausible slip: <= in place of < in the size check
belowMinimum_Inclusive(cfg, amount) ==
    amount * 10000 <= cfg.minTradeSize * LAMPORTS_PER_SOL

\* amount < this.config.minTradeSize * LAMPORTS_PER_SOL
belowMinimum(cfg, amount) ==
    amount * 10000 < cfg.minTradeSize * LAMPORTS_PER_SOL

\* getQuote off the primary network: the simulated quote
mockQuote(cfg, amount) ==
    [kind |-> "quote",
     outAmount |-> (amount * (10000 - cfg.slippageBps)) \div 10000,
     priceImpactPct |-> (cfg.slippageBps * 10000) \div PRICE_IMPACT_FACTOR]

\* The answers getQuote can settle with.
getQuote(cfg, amount) ==
    IF cfg.network # "mainnet-beta" THEN {mockQuote(cfg, amount)}
    ELSE QuoteResponses

\* a plausible slip: the live path reports a trade it never made
swapOutcome_LiveSucceeds(dryRun, call, quote) ==
    IF quote.kind = "rejected"
    THEN [success |-> FALSE, reason |-> quote.message]
    ELSE IF quote.kind = "null"
    THEN [success |-> FALSE, reason |-> "Failed to get quote from Jupiter"]
    ELSE [success |-> TRUE, dryRun |-> dryRun,
          inputMint |-> call.inputMint, outputMint |-> call.outputMint,
          inputAmount |-> call.amount, outputAmount |-> quote.outAmount,
          priceImpact |-> quote.priceImpactPct]

\* a plausible slip: executeSwap without its catch, the rejection of getQuote
\* leaving the call as a thrown error
swapOutcome_NoCatch(dryRun, call, quote) ==
    IF quote.kind = "rejected"
    THEN [success |-> FALSE, thrown |-> quote.message]
    ELSE IF quote.kind = "null"
    THEN [success |-> FALSE, reason |-> "Failed to get quote from Jupiter"]
    ELSE IF dryRun
    THEN [success |-> TRUE, dryRun |-> TRUE,
          inputMint |-> call.inputMint, outputMint |-> call.outputMint,
          inputAmount |-> call.amount, outputAmount |-> quote.outAmount,
          priceImpact |-> quote.priceImpactPct]
    ELSE [success |-> FALSE,
          reason |-> "Real trade execution not implemented"]

\* The part of executeSwap after `await this.getQuote(...)`: the value it
\* returns; dryRun is this.config.dryRun as read at that moment.
swapOutcome(dryRun, call, quote) ==
    IF quote.kind = "rejected"
    THEN [success |-> FALSE, reason |-> quote.message]
    ELSE IF quote.kind = "null"
    THEN [success |-> FALSE, reason |-> "Failed to get quote from Jupiter"]
    ELSE IF dryRun
    THEN [success |-> TRUE, dryRun |-> TRUE,
          inputMint |-> call.inputMint, outputMint |-> call.outputMint,
          inputAmount |-> call.amount, outputAmount |-> quote.outAmount,
          priceImpact |-> quote.priceImpactPct]
    ELSE [success |-> FALSE,
          reason |-> "Real trade execution not implemented"]

\* a plausible slip: unshift in place of push
historyAfterSwap_Unshift(dryRun, history, call, quote) ==
    IF quote.kind = "quote" /\ dryRun
    THEN << swapOutcome(dryRun, call, quote) >> \o history
    ELSE history

\* a plausible slip: the live-mode attempt recorded as well
historyAfterSwap_RecordsLive(dryRun, history, call, quote) ==
    IF quote.kind = "quote"
    THEN Append(history,
                IF dryRun THEN swapOutcome(dryRun, call, quote)
                ELSE [success |-> FALSE, dryRun |-> FALSE,
                      inputMint |-> call.inputMint,
                      outputMint |-> call.outputMint,
                      inputAmount |-> call.amount])
    ELSE history

\* this.tradeHistory after executeSwap resumed with `quote`
historyAfterSwap(dryRun, history, call, quote) ==
    IF quote.kind = "quote" /\ dryRun
    THEN Append(history, swapOutcome(dryRun, call, quote))
    ELSE history

\* a plausible slip: the ratio formatted without the factor 100
toFixed2_NoPercent(successful, total) ==
    (successful * 100 * 2 + total) \div (2 * total)

\* (successful / total * 100).toFixed(2): the decimal string with two
\* fraction digits, held as its count of hundredths (round half up)
toFixed2(successful, total) ==
    (successful * 10000 * 2 + total) \div (2 * total)

\* getStatistics()
getStatistics(history) ==
    LET total      == Len(history)
        successful == Len(SelectSeq(history, LAMBDA t : t.success))
        dryRuns    == Len(SelectSeq(history, LAMBDA t : t.dryRun))
    IN  [totalTrades |-> total,
         successfulTrades |-> successful,
         dryRunTrades |-> dryRuns,
         successRate |->
             IF total > 0
             THEN [type |-> "string",
                   hundredths |-> toFixed2(successful, total)]
             ELSE [type |-> "number", hundredths |-> 0]]

\* Array.prototype.slice(begin) with no end: a negative begin counts from
\* the end of the array, and -0 is 0
slice(array, begin) ==
    LET k == IF begin < 0 THEN Max2(Len(array) + begin, 0)
             ELSE Min2(begin, Len(array))
    IN  SubSeq(array, k + 1, Len(array))

\* getTradeHistory(count): this.tradeHistory.slice(-count)
getTradeHistory(history, count) == slice(history, -count)

\* new TradeExecutor(connection, wallet, config)
ExecInit(cfg) ==
    /\ execConfig = cfg
    /\ tradeHistory = << >>
    /\ inflight = {}
    /\ result = NoResult
    /\ stats = NoStats
    /\ recent = NoRecent
    /\ started = 0

\* executeSwap up to its first suspension, entered from executeBuy or
\* executeSell: a too small amount returns at once, any other amount asks
\* for a quote and waits.
SwapBegin(inputMint, outputMint, portfolioValue, size) ==
    LET amount == swapAmount(portfolioValue, size)
        call   == [id |-> started + 1, inputMint |-> inputMint,
                   outputMint |-> outputMint, amount |-> amount,
                   portfolioValue |-> portfolioValue, size |-> size,
                   startedDryRun |-> execConfig.dryRun]
    IN  /\ started' = started + 1
        /\ stats' = NoStats
        /\ recent' = NoRecent
        /\ UNCHANGED <<execConfig, tradeHistory>>
        /\ IF belowMinimum(execConfig, amount)
           THEN /\ result' = [call |-> call.id, args |-> call,
                              quote |-> NotRequested,
                              value |-> [success |-> FALSE,
                                         reason |-> "Trade size below minimum",
                                         minSize |-> execConfig.minTradeSize]]
                /\ UNCHANGED inflight
           ELSE /\ inflight' = inflight \cup {call}
                /\ UNCHANGED result

\* executeSwap resumes with the answer of getQuote and returns.
SwapSettle(call, quote) ==
    /\ call \in inflight
    /\ quote \in getQuote(execConfig, call.amount)
    /\ inflight' = inflight \ {call}
    /\ tradeHistory' =
           historyAfterSwap(execConfig.dryRun, tradeHistory, call, quote)
    /\ result' = [call |-> call.id, args |-> call, quote |-> quote,
                  value |-> swapOutcome(execConfig.dryRun, call, quote)]
    /\ stats' = NoStats
    /\ recent' = NoRecent
    /\ UNCHANGED <<execConfig, started>>

\* A caller invokes executeBuy(pair, size, portfolioValue).
ExecuteBuy ==
    /\ started < MaxExecutes
    /\ \E pv \in ExecPortfolioValues, size \in ExecSizes :
           SwapBegin(SOL_MINT, USDC_MINT, pv, size)
    /\ UNCHANGED <<engineVars, marketVars, loopVars>>

\* A caller invokes executeSell(pair, size, portfolioValue).
ExecuteSell ==
    /\ started < MaxExecutes
    /\ \E pv \in ExecPortfolioValues, size \in ExecSizes :
           SwapBegin(USDC_MINT, SOL_MINT, pv, size)
    /\ UNCHANGED <<engineVars, marketVars, loopVars>>

\* The quote of a suspended executeBuy/executeSell arrives.
QuoteSettles ==
    /\ \E call \in inflight :
           \E quote \in getQuote(execConfig, call.amount) :
               SwapSettle(call, quote)
    /\ UNCHANGED <<engineVars, marketVars, loopVars>>

\* setDryRun(enabled)
SetDryRun ==
    /\ \E enabled \in BOOLEAN :
           execConfig' = [execConfig EXCEPT !.dryRun = enabled]
    /\ stats' = NoStats
    /\ recent' = NoRecent
    /\ UNCHANGED <<tradeHistory, inflight, result, started>>
    /\ UNCHANGED <<engineVars, marketVars, loopVars>>

\* clearHistory()
ClearHistory ==
    /\ tradeHistory' = << >>
    /\ stats' = NoStats
    /\ recent' = NoRecent
    /\ UNCHANGED <<execConfig, inflight, result, started>>
    /\ UNCHANGED <<engineVars, marketVars, loopVars>>

\* getStatistics()
GetStatistics ==
    /\ stats' = getStatistics(tradeHistory)
    /\ recent' = NoRecent
    /\ UNCHANGED <<execConfig, tradeHistory, inflight, result, started>>
    /\ UNCHANGED <<engineVars, marketVars, loopVars>>

\* getTradeHistory(count), count given
GetTradeHistory ==
    /\ \E count \in HistoryCounts :
           recent' = [count |-> count,
                      records |-> getTradeHistory(tradeHistory, count)]
    /\ stats' = NoStats
    /\ UNCHANGED <<execConfig, tradeHistory, inflight, result, started>>
    /\ UNCHANGED <<engineVars, marketVars, loopVars>>

-----------------------------------------------------------------------------
(* MarketData                                                              *)
(* Prices of this component are counts of 1/100; signalStrength is a count *)
(* of 1/10000, the quotient it is formed from rounded down.                *)

\* getMarketData calls explored per pair and behaviour (MarketSpec): enough
\* to pass the 100 prices the history keeps
MaxObservations == 102

Pairs == {"SOL-USDC", "ETH-USDC"}

\* priceChange = (Math.random() - 0.5) * 2, a value from -1 up to but not
\* including 1: the model draws -1, -0.5 or +0.5
PriceChanges == {-100, -50, 50}

\* portfolioValue arguments of getMarketData: the default 0 and 1.0 SOL
MarketPortfolioValues == {0, 10000}

NoObservation == [pair |-> "none"]

\* a JavaScript Map: a function on the keys that were set
EmptyMap == [k \in {} |-> 0]

\* map.set(key, value)
MapSet(map, key, value) ==
    [k \in DOMAIN map \cup {key} |-> IF k = key THEN value ELSE map[k]]

\* new MarketData(config): this.config, with the constructor's defaults
MarketDataConfig(o) ==
    [updateInterval |-> IF "updateInterval" \in DOMAIN o
                           /\ o.updateInterval # 0
                        THEN o.updateInterval ELSE 5000,
     pairs |-> IF "pairs" \in DOMAIN o THEN o.pairs ELSE << "SOL-USDC" >>,
     network |-> IF "network" \in DOMAIN o THEN o.network
                 ELSE "mainnet-beta"]

\* new TradeExecutor(connection, wallet, config): this.config, with the
\* constructor's defaults
TradeExecutorConfig(o) ==
    [slippageBps |-> IF "slippageBps" \in DOMAIN o /\ o.slippageBps # 0
                     THEN o.slippageBps ELSE 50,
     dryRun |-> IF "dryRun" \in DOMAIN o THEN o.dryRun # FALSE ELSE TRUE,
     minTradeSize |-> IF "minTradeSize" \in DOMAIN o /\ o.minTradeSize # 0
                      THEN o.minTradeSize ELSE 100,
     network |-> IF "network" \in DOMAIN o THEN o.network
                 ELSE "mainnet-beta"]

\* The price changes explored after `history`: either one for the first
\* observation of a pair, afterwards the one the walk began with, so that a
\* pair's walk is one of the monotone ones and MaxObservations calls stay
\* explorable.  (A walk that reaches the price 0 starts again from 100, and
\* the difference of its last two prices is then no price change.)
nextChanges(history) ==
    IF Len(history) = 0 THEN PriceChanges
    ELSE IF Len(history) = 1 THEN {history[1] - 10000}
    ELSE LET change == history[Len(history)] - history[Len(history) - 1]
         IN  IF change \in PriceChanges THEN {change}
             ELSE {history[Len(history)] - 10000}

\* prices.reduce((sum, p) => sum + p, 0)
RECURSIVE sumOf(_)
sumOf(prices) ==
    IF prices = << >> THEN 0 ELSE Head(prices) + sumOf(Tail(prices))

\* a plausible slip: the average taken over the whole history
calculateSMA_WholeHistory(prices, period) ==
    sumOf(prices) \div Len(prices)

\* calculateSMA(prices, period)
calculateSMA(prices, period) ==
    IF Len(prices) < period THEN sumOf(prices) \div Len(prices)
    ELSE LET recentPrices == SubSeq(prices, Len(prices) - period + 1,
                                    Len(prices))
         IN  sumOf(recentPrices) \div period

\* "Generate signal based on price vs SMA": signalStrength of getMarketData
signalStrengthOf(history, currentPrice, sma20) ==
    IF Len(history) >= 20
    THEN LET deviation10 == ((currentPrice - sma20) * 100000) \div sma20
         IN  Clamp(-10000, 10000, deviation10)
    ELSE 0

\* a plausible slip: the newest price dropped once the history is full
getMarketData_DropsNewest(prices, histories, pair, portfolioValue, priceChange) ==
    LET history   == IF pair \in DOMAIN histories THEN histories[pair]
                     ELSE << >>
        lastPrice == IF pair \in DOMAIN prices /\ prices[pair] # 0
                     THEN prices[pair] ELSE 10000
        currentPrice == lastPrice + priceChange
        kept      == IF Len(history) >= 100 THEN history
                     ELSE Append(history, currentPrice)
        sma20     == calculateSMA(kept, 20)
    IN  [lastPrices |-> MapSet(prices, pair, currentPrice),
         priceHistory |-> MapSet(histories, pair, kept),
         value |-> [pair |-> pair, price |-> currentPrice,
                    signalStrength |->
                        signalStrengthOf(kept, currentPrice, sma20),
                    sma20 |-> sma20,
                    portfolioValue |-> portfolioValue]]

\* getMarketData(pair, portfolioValue) with the random priceChange given:
\* the two maps it leaves and the observation it returns (its pair, price,
\* signalStrength, sma20 and portfolioValue)
getMarketData(prices, histories, pair, portfolioValue, priceChange) ==
    LET history   == IF pair \in DOMAIN histories THEN histories[pair]
                     ELSE << >>
        lastPrice == IF pair \in DOMAIN prices /\ prices[pair] # 0
                     THEN prices[pair] ELSE 10000
        currentPrice == lastPrice + priceChange
        pushed    == Append(history, currentPrice)
        kept      == IF Len(pushed) > 100 THEN Tail(pushed) ELSE pushed
        sma20     == calculateSMA(kept, 20)
    IN  [lastPrices |-> MapSet(prices, pair, currentPrice),
         priceHistory |-> MapSet(histories, pair, kept),
         value |-> [pair |-> pair, price |-> currentPrice,
                    signalStrength |->
                        signalStrengthOf(kept, currentPrice, sma20),
                    sma20 |-> sma20,
                    portfolioValue |-> portfolioValue]]

\* this.updateTimer while no interval timer is kept in it
NoInterval == [id |-> 0]

\* new MarketData(config)
MarketInit(cfg) ==
    /\ marketConfig = cfg
    /\ lastPrices = EmptyMap
    /\ marketPriceHistory = EmptyMap
    /\ observation = NoObservation
    /\ fetched = [p \in Pairs |-> 0]
    /\ updateTimer = NoInterval
    /\ intervals = {}
    /\ updates = [set |-> 0, ticks |-> 0, callbacks |-> 0, stopped |-> FALSE]

\* A caller invokes getMarketData(pair, portfolioValue).
GetMarketData ==
    /\ \E pair \in Pairs, pv \in MarketPortfolioValues :
           /\ fetched[pair] < MaxObservations
           /\ \E change \in nextChanges(IF pair \in DOMAIN marketPriceHistory
                                        THEN marketPriceHistory[pair]
                                        ELSE << >>) :
                  LET r == getMarketData(lastPrices, marketPriceHistory,
                                         pair, pv, change)
                  IN  /\ lastPrices' = r.lastPrices
                      /\ marketPriceHistory' = r.priceHistory
                      /\ observation' = r.value
           /\ fetched' = [fetched EXCEPT ![pair] = @ + 1]
    /\ UNCHANGED <<marketConfig, updateVars>>
    /\ UNCHANGED <<engineVars, execVars, loopVars>>

\* startUpdates calls explored per behaviour (UpdatesSpec)
MaxStarts == 2

\* ticks of the update timers explored per behaviour (UpdatesSpec)
MaxTicks == 2

\* The body of the interval callback of startUpdates from its k-th pair on:
\* getMarketData(pair) for every pair of this.config.pairs in turn (the
\* callback the caller gave is invoked with each result), the price changes
\* drawn being change[k], change[k + 1], ...
RECURSIVE updateEach(_, _, _, _, _)
updateEach(prices, histories, pairs, change, k) ==
    IF k > Len(pairs)
    THEN [lastPrices |-> prices, priceHistory |-> histories,
          value |-> NoObservation]
    ELSE LET r == getMarketData(prices, histories, pairs[k], 0, change[k])
         IN  IF k = Len(pairs) THEN r
             ELSE updateEach(r.lastPrices, r.priceHistory, pairs, change,
                             k + 1)

\* startUpdates(callback): this.updateTimer = setInterval(...)
StartUpdates ==
    /\ updates.set < MaxStarts
    /\ LET timer == [id |-> updates.set + 1]
       IN  /\ intervals' = intervals \cup {timer}
           /\ updateTimer' = timer
    /\ updates' = [updates EXCEPT !.set = @ + 1, !.stopped = FALSE]
    /\ UNCHANGED <<marketConfig, lastPrices, marketPriceHistory, observation,
                   fetched>>
    /\ UNCHANGED <<engineVars, execVars, loopVars>>

\* stopUpdates(): clearInterval(this.updateTimer), when there is one
StopUpdates ==
    /\ IF updateTimer # NoInterval
       THEN /\ intervals' = intervals \ {updateTimer}
            /\ updateTimer' = NoInterval
       ELSE UNCHANGED <<intervals, updateTimer>>
    /\ updates' = [updates EXCEPT !.stopped = TRUE]
    /\ UNCHANGED <<marketConfig, lastPrices, marketPriceHistory, observation,
                   fetched>>
    /\ UNCHANGED <<engineVars, execVars, loopVars>>

\* An interval timer that was not cleared fires: every pair is observed and
\* handed to the callback.
UpdateTick ==
    /\ updates.ticks < MaxTicks
    /\ intervals # {}
    /\ LET pairs == marketConfig.pairs
       IN  \E change \in [DOMAIN pairs -> PriceChanges] :
               /\ \A k \in DOMAIN pairs :
                      change[k] \in nextChanges(
                                        IF pairs[k] \in DOMAIN marketPriceHistory
                                        THEN marketPriceHistory[pairs[k]]
                                        ELSE << >>)
               /\ LET r == updateEach(lastPrices, marketPriceHistory, pairs,
                                      change, 1)
                  IN  /\ lastPrices' = r.lastPrices
                      /\ marketPriceHistory' = r.priceHistory
                      /\ observation' = r.value
               /\ fetched' = [p \in Pairs |->
                                 fetched[p]
                                     + Cardinality({k \in DOMAIN pairs :
                                                       pairs[k] = p})]
               /\ updates' = [updates EXCEPT !.ticks = @ + 1,
                                             !.callbacks = @ + Len(pairs)]
    /\ UNCHANGED <<marketConfig, updateTimer, intervals>>
    /\ UNCHANGED <<engineVars, execVars, loopVars>>

-----------------------------------------------------------------------------
(* The trading loop of main(): setInterval(async () => {...}, interval).   *)
(* Every tick starts the callback anew, whether or not an earlier one is   *)
(* still suspended at an await.                                            *)

\* timer ticks explored per behaviour (Spec)
MaxCycles == 2

\* What wallet.getBalance() resolves with: 2.0 SOL.  (When it rejects,
\* index.js takes 1.0.)
Balances == {20000}

\* What marketData.getMarketData returns to the loop, apart from the
\* portfolioValue it copies from its argument.
LoopMarkets ==
    [price : {100, 125}, signalStrength : {-7500, 1000, 7500},
     keyLevels : {<< >>}]

\* The same, for the loop of a run whose config.json is rewritten.
ReloadMarkets ==
    [price : {100, 125}, signalStrength : {7500}, keyLevels : {<< >>}]

Idle == [pc |-> "idle"]

LoopEngineConfig ==
    [inertiaThreshold |-> 1500, tradingMass |-> 10000,
     riskReactionRatio |-> 10000, gravitationalConstant |-> 10,
     momentumPeriod |-> 2, maxPositionSize |-> 3000]

\* The configurations loadConfig can return: on the primary network or on
\* devnet, dry run or live.
Configs ==
    [network : {"mainnet-beta", "devnet"},
     bot : {[checkInterval |-> 10000]},
     trading : [dryRun : BOOLEAN, minTradeSize : {100},
                pairs : {<< "SOL-USDC" >>}, updateInterval : {10000}],
     principia : {LoopEngineConfig}]

DefaultConfig ==
    [network |-> "mainnet-beta",
     bot |-> [checkInterval |-> 10000],
     trading |-> [dryRun |-> TRUE, minTradeSize |-> 100,
                  pairs |-> << "SOL-USDC" >>, updateInterval |-> 10000],
     principia |-> LoopEngineConfig]

LoopInit ==
    /\ iterationCount = 0
    /\ cycle = [c \in 1..MaxCycles |-> Idle]

\* What main() fixes when it starts the trading loop: the pair the loop
\* trades, config.trading.pairs[0], and the delay of its timer,
\* config.bot.checkInterval || 10000.
TradingLoopInit(cfg) ==
    /\ tradingPair = cfg.trading.pairs[1]
    /\ tradingLoop = [delay |-> IF cfg.bot.checkInterval # 0
                                THEN cfg.bot.checkInterval ELSE 10000]
    /\ mainOp = [op |-> "main"]
    /\ reloads = 0

NoTimeout == [id |-> 0]

\* main() up to fs.watch(configPath, ...): no timeout is set
WatchInit ==
    /\ clock = 0
    /\ timers = {}
    /\ configWatchDebounce = NoTimeout
    /\ changes = << >>
    /\ runs = << >>

\* main() up to the first tick, with the configuration cfg loaded: the
\* engine is given cfg.principia, the market data module its pairs, the
\* executor dryRun and minTradeSize.
MainInit(cfg) ==
    /\ config = cfg
    /\ EngineInit(cfg.principia)
    /\ MarketInit(MarketDataConfig(
                      [pairs |-> cfg.trading.pairs,
                       updateInterval |->
                           IF cfg.trading.updateInterval # 0
                           THEN cfg.trading.updateInterval ELSE 10000]))
    /\ ExecInit(TradeExecutorConfig(
                    [dryRun |-> cfg.trading.dryRun # FALSE,
                     minTradeSize |-> cfg.trading.minTradeSize]))
    /\ LoopInit
    /\ TradingLoopInit(cfg)
    /\ WatchInit

\* The timer fires: iterationCount++, then `await wallet.getBalance()`.
Tick ==
    /\ iterationCount < MaxCycles
    /\ iterationCount' = iterationCount + 1
    /\ cycle' = [cycle EXCEPT ![iterationCount + 1] = [pc |-> "balance"]]
    /\ mainOp' = [op |-> "tradingLoop"]
    /\ UNCHANGED <<engineVars, execVars, marketVars, config, tradingPair,
                   tradingLoop, reloads, watchVars>>

\* Cycle c resumes after getBalance with portfolioValue pv: it fetches the
\* market data, calls analyzeMarket and, on buy or sell, enters executeBuy
\* or executeSell, which returns at once or suspends for the quote.
CycleAnalyzes(c, pv, m) ==
    LET market == [pair |-> tradingPair, price |-> m.price,
                   signalStrength |-> m.signalStrength,
                   keyLevels |-> m.keyLevels, portfolioValue |-> pv]
        d      == analyzeMarket(ThisEngine, market, calls + 1).decision
        before == [currentPosition |-> currentPosition,
                   positionSize |-> positionSize]
        buys   == d.action = "buy" /\ d.positionChange > 0
        sells  == d.action = "sell" /\ d.positionChange < 0
        trades == d.action # "hold" /\ (buys \/ sells)
        amount == IF trades THEN swapAmount(pv, Abs(d.positionChange)) ELSE 0
        waits  == trades /\ ~belowMinimum(execConfig, amount)
    IN  /\ cycle[c].pc = "balance"
        /\ EngineCall(market)
        /\ IF trades
           THEN SwapBegin(IF buys THEN SOL_MINT ELSE USDC_MINT,
                          IF buys THEN USDC_MINT ELSE SOL_MINT,
                          pv, Abs(d.positionChange))
           ELSE UNCHANGED execVars
        /\ cycle' = [cycle EXCEPT ![c] =
                        [pc |-> IF waits THEN "quote" ELSE "done",
                         portfolioValue |-> pv,
                         action |-> d.action,
                         before |-> before,
                         analysis |-> calls + 1,
                         executed |-> trades,
                         call |-> IF trades THEN started + 1 ELSE 0,
                         success |-> FALSE]]
        /\ mainOp' = [op |-> "tradingLoop"]
        /\ UNCHANGED <<marketVars, config, iterationCount, tradingPair,
                       tradingLoop, reloads, fed, watchVars>>

\* wallet.getBalance() of some suspended cycle resolves.
BalanceResolves ==
    \E c \in 1..MaxCycles, pv \in Balances, m \in LoopMarkets :
        CycleAnalyzes(c, pv, m)

\* wallet.getBalance() of some suspended cycle rejects: portfolioValue = 1.0.
BalanceRejects ==
    \E c \in 1..MaxCycles, m \in LoopMarkets : CycleAnalyzes(c, 10000, m)

\* wallet.getBalance() of some suspended cycle resolves, in a run of main()
\* whose config.json is rewritten.
BalanceResolvesAgain ==
    \E c \in 1..MaxCycles, pv \in Balances, m \in ReloadMarkets :
        CycleAnalyzes(c, pv, m)

\* The quote of the executeBuy/executeSell some cycle awaits arrives; the
\* cycle logs and ends.
CycleQuoteSettles ==
    \E c \in 1..MaxCycles :
        /\ cycle[c].pc = "quote"
        /\ \E call \in inflight :
               /\ call.id = cycle[c].call
               /\ \E quote \in getQuote(execConfig, call.amount) :
                      /\ SwapSettle(call, quote)
                      /\ cycle' = [cycle EXCEPT ![c].pc = "done",
                                       ![c].success =
                                           swapOutcome(execConfig.dryRun,
                                                       call, quote).success]
        /\ mainOp' = [op |-> "tradingLoop"]
        /\ UNCHANGED <<engineVars, marketVars, config, iterationCount,
                       tradingPair, tradingLoop, reloads, watchVars>>

\* reloadConfig runs explored per behaviour (Spec)
MaxReloads == 1

\* The principia sections a rewritten config.json can hold: the loaded one;
\* a higher threshold, a lower position limit and a higher risk ratio; a
\* higher mass, a higher constant and a shorter momentum window.
ReloadedPrincipia ==
    { LoopEngineConfig,
      [LoopEngineConfig EXCEPT !.inertiaThreshold = 3000,
                               !.maxPositionSize = 2000,
                               !.riskReactionRatio = 20000],
      [LoopEngineConfig EXCEPT !.tradingMass = 20000,
                               !.gravitationalConstant = 20,
                               !.momentumPeriod = 1] }

\* The trading sections a rewritten config.json can hold: the default one;
\* live with a lower minimum; another pair, checked twice as often.
ReloadedTrading ==
    { [dryRun |-> TRUE, minTradeSize |-> 100,
       pairs |-> << "SOL-USDC" >>, updateInterval |-> 10000],
      [dryRun |-> FALSE, minTradeSize |-> 15,
       pairs |-> << "SOL-USDC" >>, updateInterval |-> 10000],
      [dryRun |-> TRUE, minTradeSize |-> 100,
       pairs |-> << "ETH-USDC" >>, updateInterval |-> 5000] }

\* What loadConfig can return when config.json was rewritten while the bot
\* runs on `network`: one section changed and the other as first loaded,
\* or the trading mode, the minimum and three engine parameters changed
\* together.
ReloadedConfigs(network) ==
    { [network |-> network, bot |-> [checkInterval |-> 10000],
       trading |-> t, principia |-> p] :
          <<t, p>> \in (ReloadedTrading \X {LoopEngineConfig})
                           \cup ({DefaultConfig.trading} \X ReloadedPrincipia)
                           \cup { << [DefaultConfig.trading
                                         EXCEPT !.dryRun = FALSE,
                                                !.minTradeSize = 15],
                                     [LoopEngineConfig
                                         EXCEPT !.inertiaThreshold = 3000,
                                                !.maxPositionSize = 2000,
                                                !.riskReactionRatio = 20000]
                                  >> } }

\* a plausible slip: the tradingMass comparison left out of reloadConfig
reloadConfig_SkipsMass(cfg, exec, engine, market, newConfig) ==
    [execConfig |->
         [exec EXCEPT
              !.dryRun = IF newConfig.trading.dryRun # cfg.trading.dryRun
                         THEN newConfig.trading.dryRun # FALSE ELSE @,
              !.minTradeSize =
                  IF newConfig.trading.minTradeSize # cfg.trading.minTradeSize
                  THEN (IF newConfig.trading.minTradeSize # 0
                        THEN newConfig.trading.minTradeSize ELSE 100)
                  ELSE @],
     engineConfig |->
         [k \in DOMAIN engine |->
             IF k # "tradingMass" /\ newConfig.principia[k] # cfg.principia[k]
             THEN newConfig.principia[k] ELSE engine[k]],
     marketConfig |->
         [market EXCEPT
              !.pairs = IF newConfig.trading.pairs # cfg.trading.pairs
                        THEN newConfig.trading.pairs ELSE @,
              !.updateInterval =
                  IF newConfig.trading.updateInterval
                         # cfg.trading.updateInterval
                  THEN (IF newConfig.trading.updateInterval # 0
                        THEN newConfig.trading.updateInterval ELSE 10000)
                  ELSE @],
     config |-> newConfig]

\* reloadConfig with loadConfig() returning newConfig: the configurations of
\* the executor, the engine and the market data module it leaves, and the
\* new value of `config`.  Every setting is compared with the one of `cfg`,
\* the configuration loaded before, and assigned when it differs.
reloadConfig(cfg, exec, engine, market, newConfig) ==
    [execConfig |->
         [exec EXCEPT
              !.dryRun = IF newConfig.trading.dryRun # cfg.trading.dryRun
                         THEN newConfig.trading.dryRun # FALSE ELSE @,
              !.minTradeSize =
                  IF newConfig.trading.minTradeSize # cfg.trading.minTradeSize
                  THEN (IF newConfig.trading.minTradeSize # 0
                        THEN newConfig.trading.minTradeSize ELSE 100)
                  ELSE @],
     engineConfig |->
         [k \in DOMAIN engine |->
             IF newConfig.principia[k] # cfg.principia[k]
             THEN newConfig.principia[k] ELSE engine[k]],
     marketConfig |->
         [market EXCEPT
              !.pairs = IF newConfig.trading.pairs # cfg.trading.pairs
                        THEN newConfig.trading.pairs ELSE @,
              !.updateInterval =
                  IF newConfig.trading.updateInterval
                         # cfg.trading.updateInterval
                  THEN (IF newConfig.trading.updateInterval # 0
                        THEN newConfig.trading.updateInterval ELSE 10000)
                  ELSE @],
     config |-> newConfig]

\* A file loadConfig looks for: one that does not exist, one whose content
\* JSON.parse rejects, one that holds the configuration cfg.
Absent == [exists |-> FALSE]

Unparseable == [exists |-> TRUE, parses |-> FALSE]

Holding(cfg) == [exists |-> TRUE, parses |-> TRUE, content |-> cfg]

\* loadConfig() with `files` at the three config paths, in their order: the
\* first file that exists and parses, else the defaults.
loadConfig(files) ==
    LET loadable == {i \in DOMAIN files :
                        files[i].exists /\ files[i].parses}
    IN  IF loadable = {} THEN DefaultConfig
        ELSE files[CHOOSE i \in loadable : \A j \in loadable : i <= j].content

\* One run of reloadConfig with `files` at the three config paths.
ReloadConfigRuns(files) ==
    LET newConfig == loadConfig(files)
        r == reloadConfig(config, execConfig, engineConfig, marketConfig,
                          newConfig)
    IN  /\ execConfig' = r.execConfig
        /\ engineConfig' = r.engineConfig
        /\ marketConfig' = r.marketConfig
        /\ config' = r.config
        /\ mainOp' = [op |-> "reloadConfig", config |-> config,
                      newConfig |-> newConfig, files |-> files]
        /\ reloads' = reloads + 1
        /\ UNCHANGED <<currentPosition, positionSize, momentum, priceHistory,
                       lastAction, marketData, decision, calls, engineOp, fed>>
        /\ UNCHANGED <<tradeHistory, inflight, result, stats, recent,
                       started>>
        /\ UNCHANGED <<lastPrices, marketPriceHistory, observation, fetched,
                       updateVars>>
        /\ UNCHANGED <<iterationCount, cycle, tradingPair, tradingLoop>>

\* config.json was rewritten and the debounce timer fires: reloadConfig runs
\* with the new file.
ReloadConfig ==
    /\ reloads < MaxReloads
    /\ \E newConfig \in ReloadedConfigs(config.network) :
           ReloadConfigRuns(<< Holding(newConfig), Absent, Absent >>)
    /\ UNCHANGED watchVars

-----------------------------------------------------------------------------
(* The watcher of config.json: fs.watch(configPath, ...) of main().        *)
(* Time is counted in ms and passes in steps of 250 ms; a timeout that is  *)
(* due fires before time passes on.                                        *)

\* 'change' events explored per behaviour (WatchSpec)
MaxChanges == 3

\* steps of 250 ms explored per behaviour (WatchSpec)
MaxClockSteps == 6

\* the delay of setTimeout(reloadConfig, 500)
DEBOUNCE_MS == 500

\* What the three config paths can hold when reloadConfig runs on `network`:
\* an edited config.json (live, a lower minimum, three engine parameters
\* changed); a config.json that does not parse, alone; one that does not
\* parse, with a config.json of a higher trading mass in the script
\* directory.
WatchedFiles(network) ==
    { << Holding([network |-> network, bot |-> [checkInterval |-> 10000],
                  trading |-> [DefaultConfig.trading
                                  EXCEPT !.dryRun = FALSE,
                                         !.minTradeSize = 15],
                  principia |-> [LoopEngineConfig
                                    EXCEPT !.inertiaThreshold = 3000,
                                           !.maxPositionSize = 2000,
                                           !.riskReactionRatio = 20000]]),
         Absent, Absent >>,
      << Unparseable, Absent, Absent >>,
      << Unparseable,
         Holding([network |-> network, bot |-> [checkInterval |-> 10000],
                  trading |-> DefaultConfig.trading,
                  principia |-> [LoopEngineConfig
                                    EXCEPT !.tradingMass = 20000]]),
         Absent >> }

\* a plausible slip: the pending timeout not cleared
debounce_NoClear(pending, handle, now, id) ==
    LET timeout == [id |-> id, due |-> now + DEBOUNCE_MS]
    IN  [timers |-> pending \cup {timeout},
         configWatchDebounce |-> timeout]

\* The 'change' branch of the fs.watch callback at time `now`, with the
\* timeouts `pending` and configWatchDebounce = handle: clearTimeout of the
\* handle, then setTimeout(reloadConfig, 500), whose handle is kept.
debounce(pending, handle, now, id) ==
    LET cleared == IF handle # NoTimeout
                   THEN {t \in pending : t.id # handle.id}
                   ELSE pending
        timeout == [id |-> id, due |-> now + DEBOUNCE_MS]
    IN  [timers |-> cleared \cup {timeout},
         configWatchDebounce |-> timeout]

\* The fs.watch callback runs with eventType 'change'.
WatchChange ==
    /\ Len(changes) < MaxChanges
    /\ LET d == debounce(timers, configWatchDebounce, clock,
                         Len(changes) + 1)
       IN  /\ timers' = d.timers
           /\ configWatchDebounce' = d.configWatchDebounce
    /\ changes' = Append(changes, clock)
    /\ mainOp' = [op |-> "watch", eventType |-> "change"]
    /\ UNCHANGED <<clock, runs>>
    /\ UNCHANGED <<config, iterationCount, cycle, tradingPair, tradingLoop,
                   reloads>>
    /\ UNCHANGED <<engineVars, execVars, marketVars>>

\* The fs.watch callback runs with eventType 'rename': nothing is done.
WatchRename ==
    /\ mainOp' = [op |-> "watch", eventType |-> "rename"]
    /\ UNCHANGED watchVars
    /\ UNCHANGED <<config, iterationCount, cycle, tradingPair, tradingLoop,
                   reloads>>
    /\ UNCHANGED <<engineVars, execVars, marketVars>>

\* 250 ms pass, no timeout being due.
TimePasses ==
    /\ clock < MaxClockSteps * 250
    /\ \A t \in timers : t.due > clock
    /\ clock' = clock + 250
    /\ UNCHANGED <<timers, configWatchDebounce, changes, runs>>
    /\ UNCHANGED <<config, iterationCount, cycle, tradingPair, tradingLoop,
                   mainOp, reloads>>
    /\ UNCHANGED <<engineVars, execVars, marketVars>>

\* A timeout of the watcher is due and fires: reloadConfig runs.
DebounceFires ==
    /\ \E t \in timers :
           /\ t.due <= clock
           /\ timers' = timers \ {t}
    /\ runs' = Append(runs, clock)
    /\ \E files \in WatchedFiles(config.network) : ReloadConfigRuns(files)
    /\ UNCHANGED <<clock, configWatchDebounce, changes>>

-----------------------------------------------------------------------------
(* Specifications                                                          *)

\* The engine alone, driven through analyzeMarket.
EngineSpecInit ==
    /\ \E cfg \in EngineConfigs : EngineInit(cfg)
    /\ ExecInit(TradeExecutorConfig(EmptyMap))
    /\ MarketInit(MarketDataConfig(EmptyMap))
    /\ config = DefaultConfig
    /\ LoopInit
    /\ TradingLoopInit(DefaultConfig)
    /\ WatchInit

EngineNext == AnalyzeMarket

EngineSpec == EngineSpecInit /\ [][EngineNext]_vars

\* The engine through its life: analyzeMarket calls with updateConfig and
\* reset calls between them.
LifecycleNext ==
    \/ AnalyzeMarketAgain
    \/ AnalyzeMarketIncomplete
    \/ UpdateConfig
    \/ Reset

EngineLifecycleSpec == EngineSpecInit /\ [][LifecycleNext]_vars

\* The engine with the prices it was fed kept on record.
MomentumNext ==
    \/ AnalyzeMarketFed
    \/ UpdateConfigFed
    \/ ResetFed

MomentumSpec == EngineSpecInit /\ [][MomentumNext]_vars

\* The engine fed observations with key levels near the price.
GravityNext == AnalyzeMarketNearLevels

GravitySpec == EngineSpecInit /\ [][GravityNext]_vars

\* The executor alone, driven through its public methods.
ExecutorSpecInit ==
    /\ EngineInit(LoopEngineConfig)
    /\ \E cfg \in ExecConfigs : ExecInit(cfg)
    /\ MarketInit(MarketDataConfig(EmptyMap))
    /\ config = DefaultConfig
    /\ LoopInit
    /\ TradingLoopInit(DefaultConfig)
    /\ WatchInit

ExecutorNext ==
    \/ ExecuteBuy
    \/ ExecuteSell
    \/ QuoteSettles
    \/ SetDryRun
    \/ ClearHistory
    \/ GetStatistics
    \/ GetTradeHistory

ExecutorSpec == ExecutorSpecInit /\ [][ExecutorNext]_vars

\* main(): the trading loop over the engine and the executor.
Init == \E cfg \in Configs : MainInit(cfg)

Next ==
    \/ Tick
    \/ BalanceResolves
    \/ BalanceRejects
    \/ CycleQuoteSettles
    \/ ReloadConfig

Spec == Init /\ [][Next]_vars

\* main() while config.json is rewritten: the trading loop on fewer market
\* observations, with reloadConfig runs between its steps.
ReloadNext ==
    \/ Tick
    \/ BalanceResolvesAgain
    \/ CycleQuoteSettles
    \/ ReloadConfig

ReloadSpec == Init /\ [][ReloadNext]_vars

\* main() while config.json is edited and time passes: the file watcher and
\* the reloads it starts.
WatchNext ==
    \/ WatchChange
    \/ WatchRename
    \/ TimePasses
    \/ DebounceFires

WatchSpec == Init /\ [][WatchNext]_vars

\* The market data module alone, driven through getMarketData.
MarketSpecInit ==
    /\ EngineInit(LoopEngineConfig)
    /\ ExecInit(TradeExecutorConfig(EmptyMap))
    /\ \E network \in {"mainnet-beta", "devnet"} :
           MarketInit(MarketDataConfig([network |-> network]))
    /\ config = DefaultConfig
    /\ LoopInit
    /\ TradingLoopInit(DefaultConfig)
    /\ WatchInit

MarketNext == GetMarketData

MarketSpec == MarketSpecInit /\ [][MarketNext]_vars

\* The market data module with its periodic updates started and stopped.
UpdatesSpecInit ==
    /\ EngineInit(LoopEngineConfig)
    /\ ExecInit(TradeExecutorConfig(EmptyMap))
    /\ \E pairs \in {<< "SOL-USDC" >>, << "SOL-USDC", "ETH-USDC" >>} :
           MarketInit(MarketDataConfig([pairs |-> pairs]))
    /\ config = DefaultConfig
    /\ LoopInit
    /\ TradingLoopInit(DefaultConfig)
    /\ WatchInit

UpdatesNext ==
    \/ StartUpdates
    \/ StopUpdates
    \/ UpdateTick

UpdatesSpec == UpdatesSpecInit /\ [][UpdatesNext]_vars

-----------------------------------------------------------------------------
(* Claims about the engine (EngineSpec)                                    *)

\* maxPositionSize x portfolioValue of the latest analyzeMarket call
LimitOfLatestCall == Mul(marketData.portfolioValue, engineConfig.maxPositionSize)

\* C1 (as stated): after every analyzeMarket call, refused or not,
\* |positionSize| <= maxPositionSize x portfolioValue of that call.
C1_SizeWithinLimitAfterEveryCall ==
    calls > 0 => Abs(positionSize) <= LimitOfLatestCall

\* C1 (amended): after every analyzeMarket call that passes the inertia gate,
\* |positionSize| <= maxPositionSize x portfolioValue of that call.
C1_SizeWithinLimitAfterPassedCall ==
    decision.reason = "overcame" => Abs(positionSize) <= LimitOfLatestCall

\* C1 witness: a later call passed the gate and the limit cut its size.
C1_Witness ==
    /\ calls >= 2
    /\ decision.reason = "overcame"
    /\ decision.positionChange # decision.acceleration
    /\ Abs(positionSize) = LimitOfLatestCall
    /\ positionSize # 0

\* C2: a call whose |combinedForce| is below inertiaThreshold returns hold and
\* leaves position and positionSize as they were; position or positionSize
\* change only in a call whose |combinedForce| >= inertiaThreshold.
C2_InertiaGateHoldsPosition ==
    [][ calls' # calls =>
          /\ (Abs(decision'.force) < engineConfig.inertiaThreshold =>
                 /\ decision'.action = "hold"
                 /\ currentPosition' = currentPosition
                 /\ positionSize' = positionSize)
          /\ ((currentPosition' # currentPosition \/ positionSize' # positionSize)
                 => Abs(decision'.force) >= engineConfig.inertiaThreshold) ]_vars

\* C2 witness: the gate refused a call made while a position was held.
C2_Witness ==
    /\ decision.reason = "inertia"
    /\ Abs(decision.force) < engineConfig.inertiaThreshold
    /\ positionSize # 0
    /\ currentPosition = "long"

\* The momentum window after `price` is fed to it.
WindowAfter(history, price, period) ==
    LET all == Append(history, price)
    IN  IF Len(all) <= period THEN all
        ELSE SubSeq(all, Len(all) - period + 1, Len(all))

\* C3 (as stated): a call whose |combinedForce| is below inertiaThreshold
\* leaves the whole engine state unchanged, priceHistory and momentum
\* included.
C3_RefusedCallChangesNothing ==
    [][ (calls' # calls /\ Abs(decision'.force) < engineConfig.inertiaThreshold)
          => /\ currentPosition' = currentPosition
             /\ positionSize' = positionSize
             /\ lastAction' = lastAction
             /\ priceHistory' = priceHistory
             /\ momentum' = momentum ]_vars

\* C3 (amended): a call whose |combinedForce| is below inertiaThreshold leaves
\* position, positionSize and lastAction unchanged, but it has appended its
\* price to priceHistory (evicting the oldest beyond momentumPeriod) and
\* stored the momentum recomputed over that window.
C3_RefusedCallKeepsPositionFeedsWindow ==
    [][ (calls' # calls /\ Abs(decision'.force) < engineConfig.inertiaThreshold)
          => /\ currentPosition' = currentPosition
             /\ positionSize' = positionSize
             /\ lastAction' = lastAction
             /\ priceHistory' = WindowAfter(priceHistory, marketData'.price,
                                            engineConfig.momentumPeriod)
             /\ Len(priceHistory') <= engineConfig.momentumPeriod
             /\ (Len(priceHistory') < 2 => momentum' = 0)
             /\ (Len(priceHistory') >= 2 =>
                    momentum' * priceHistory'[1] =
                        engineConfig.tradingMass
                            * (marketData'.price - priceHistory'[1])) ]_vars

\* C3 witness: a refused call on a full window moved the window and the
\* momentum while a position was held.
C3_Witness ==
    /\ calls = 3
    /\ decision.reason = "inertia"
    /\ positionSize # 0
    /\ priceHistory = << 100, 125 >>
    /\ momentum # 0

\* The latest call returned a Decision that carries riskManagement.
CarriesRiskManagement == "riskManagement" \in DOMAIN decision

\* C15 (as stated): whenever a Decision carries riskManagement, the quotient
\* takeProfit / stopLoss is 3, for any resulting position size.
C15_RiskRatioIsThree ==
    CarriesRiskManagement =>
        /\ decision.riskManagement.stopLoss # 0
        /\ decision.riskManagement.takeProfit
               = 3 * decision.riskManagement.stopLoss

\* C15 (amended): whenever a Decision carries riskManagement,
\* takeProfit = 3 x stopLoss; both are positive and their quotient is 3 when
\* the resulting position size is not 0, and both are 0 when it is 0.
C15_TakeProfitIsThriceStopLoss ==
    CarriesRiskManagement =>
        /\ decision.riskManagement.takeProfit
               = 3 * decision.riskManagement.stopLoss
        /\ (decision.positionSize # 0 =>
                /\ decision.riskManagement.stopLoss > 0
                /\ decision.riskManagement.takeProfit
                       \div decision.riskManagement.stopLoss = 3
                /\ decision.riskManagement.takeProfit
                       % decision.riskManagement.stopLoss = 0)
        /\ (decision.positionSize = 0 =>
                /\ decision.riskManagement.stopLoss = 0
                /\ decision.riskManagement.takeProfit = 0)

\* C15 witness: a Decision of an engine with riskReactionRatio 2 carries the
\* risk parameters of a short position.
C15_Witness ==
    /\ CarriesRiskManagement
    /\ engineConfig.riskReactionRatio = 20000
    /\ decision.positionSize < 0
    /\ decision.riskManagement.stopLoss > 0

\* The values Date.now() can have in the next analyzeMarket call: the call
\* is made at the next instant or one instant later.
CallTimes == {calls + 1, calls + 2}

\* C17: two engines with the configuration and the state of this one that
\* receive the same observation produce the same Decision and the same
\* resulting EngineState, whenever each of them is called.
C17_SameInputsSameOutcome ==
    \A md \in Observations : \A t1, t2 \in CallTimes :
        analyzeMarket(ThisEngine, md, t1) = analyzeMarket(ThisEngine, md, t2)

-----------------------------------------------------------------------------
(* Claims about the trading loop (Spec)                                    *)

\* C4: when the execution step of a cycle fails, position and positionSize
\* after the cycle equal their values before the cycle.  (Stated for a cycle
\* whose analyzeMarket call is the engine's latest, so that no other cycle
\* accounts for a difference.)
C4_FailedExecutionRestoresEngine ==
    \A c \in 1..MaxCycles :
        (/\ cycle[c].pc = "done"
         /\ cycle[c].executed
         /\ ~cycle[c].success
         /\ cycle[c].analysis = calls)
        => /\ positionSize = cycle[c].before.positionSize
           /\ currentPosition = cycle[c].before.currentPosition

\* Cycle c has made its analyzeMarket call.
Analyzed(c) == cycle[c].pc \in {"quote", "done"}

\* C5: cycle n+1 never calls analyzeMarket before cycle n has.
C5_CyclesSerialized ==
    \A i, j \in 1..MaxCycles : (i < j /\ Analyzed(j)) => Analyzed(i)

-----------------------------------------------------------------------------
(* Claims about the executor (ExecutorSpec)                                *)

NotImplemented == "Real trade execution not implemented"

BelowMinimum == "Trade size below minimum"

\* A step in which an executeBuy/executeSell call returns.
Returns == result'.call # result.call

\* Every result reporting success is a dry-run result.
SuccessIsDryRun == result.call # 0 /\ result.value.success => result.value.dryRun

\* C6 (as stated): with dryRun disabled, executeBuy/executeSell always return
\* success:false with the not-implemented reason and append nothing; every
\* result with success = true has dryRun = true.
C6_LiveAlwaysNotImplemented ==
    /\ []SuccessIsDryRun
    /\ [][ (Returns /\ ~execConfig.dryRun) =>
              /\ ~result'.value.success
              /\ result'.value.reason = NotImplemented
              /\ tradeHistory' = tradeHistory ]_vars

\* C6 (amended): with dryRun disabled when the call returns, executeBuy and
\* executeSell return success:false and append nothing; the reason is the
\* not-implemented one when a quote was obtained, the below-minimum or
\* quote-failure one otherwise; every result with success = true has
\* dryRun = true.
C6_LiveNeverSucceeds ==
    /\ []SuccessIsDryRun
    /\ [][ (Returns /\ ~execConfig.dryRun) =>
              /\ ~result'.value.success
              /\ (result'.quote.kind = "quote" <=>
                      result'.value.reason = NotImplemented)
              /\ (result'.quote.kind = "notRequested" <=>
                      result'.value.reason = BelowMinimum)
              /\ tradeHistory' = tradeHistory ]_vars

\* C6 witness: a call that obtained its quote returned in live mode.
C6_Witness ==
    /\ result.call # 0
    /\ ~execConfig.dryRun
    /\ result.quote.kind = "quote"
    /\ result.value.reason = NotImplemented

\* C7: in dry-run mode a call that obtained its quote returns a record with
\* success, dryRun, outputAmount = the quote's outAmount and priceImpact = the
\* quote's priceImpactPct, and that one record is appended to the end of the
\* trade history.
C7_DryRunRecordsQuote ==
    [][ (Returns /\ execConfig.dryRun /\ result'.quote.kind = "quote") =>
           /\ result'.value.success
           /\ result'.value.dryRun
           /\ result'.value.outputAmount = result'.quote.outAmount
           /\ result'.value.priceImpact = result'.quote.priceImpactPct
           /\ result'.value.inputAmount = result'.args.amount
           /\ ~belowMinimum(execConfig, result'.args.amount)
           /\ Len(tradeHistory') = Len(tradeHistory) + 1
           /\ SubSeq(tradeHistory', 1, Len(tradeHistory)) = tradeHistory
           /\ tradeHistory'[Len(tradeHistory')] = result'.value ]_vars

\* C7 witness: a second dry-run record stands at the end of the history,
\* after a different first one.
C7_Witness ==
    /\ result.call # 0
    /\ result.value.success
    /\ Len(tradeHistory) = 2
    /\ tradeHistory[2] = result.value
    /\ tradeHistory[1] # tradeHistory[2]

\* The call begun in the step: returned at once, or suspended for its quote.
Begun == IF result'.call = started' THEN result'.args
         ELSE CHOOSE k \in inflight' : k.id = started'

\* C8: when portfolioValue x size is below minTradeSize the call returns
\* success:false with the below-minimum reason, no quote is requested and
\* the history is unchanged; an amount (in base units) equal to or above the
\* minimum is not rejected by this check and goes on to request its quote.
C8_BelowMinimumRejected ==
    [][ started' # started =>
          /\ (Begun.portfolioValue * Begun.size < execConfig.minTradeSize * 10000
                 => /\ Returns
                    /\ ~result'.value.success
                    /\ result'.value.reason = BelowMinimum
                    /\ result'.quote.kind = "notRequested"
                    /\ inflight' = inflight
                    /\ tradeHistory' = tradeHistory)
          /\ (Begun.amount * 10000 >= execConfig.minTradeSize * LAMPORTS_PER_SOL
                 => /\ ~Returns
                    /\ Begun \in inflight'
                    /\ Begun \notin inflight) ]_vars

\* C8 witness: one call was rejected as too small, another of exactly the
\* minimum awaits its quote.
C8_Witness ==
    /\ result.call # 0
    /\ result.value.reason = BelowMinimum
    /\ \E k \in inflight :
           k.amount * 10000 = execConfig.minTradeSize * LAMPORTS_PER_SOL

\* C9: a call that was awaiting its quote when setDryRun was invoked completes
\* in the mode in force when it began (a dry-run call records its trade, a
\* live call is refused), and setDryRun changes no record of the history.
C9_ModeFixedWhenCallBegins ==
    /\ [](result.call # 0 /\ result.quote.kind = "quote"
              => result.value.success = result.args.startedDryRun)
    /\ [][ execConfig' # execConfig => tradeHistory' = tradeHistory ]_vars

\* The number of records of the history that satisfy P.
CountOf(history, P(_)) == Cardinality({i \in 1..Len(history) : P(history[i])})

\* C10: getStatistics returns totalTrades = the number of records,
\* successfulTrades = the number with success, dryRunTrades = the number with
\* dryRun and successRate = successfulTrades / totalTrades x 100 (0 when
\* there is no record), and changes nothing.
C10_StatisticsMatchHistory ==
    [][ stats'.totalTrades >= 0 =>
          /\ stats'.totalTrades = Len(tradeHistory)
          /\ stats'.successfulTrades = CountOf(tradeHistory, LAMBDA t : t.success)
          /\ stats'.dryRunTrades = CountOf(tradeHistory, LAMBDA t : t.dryRun)
          /\ (Len(tradeHistory) = 0 => stats'.successRate.hundredths = 0)
          /\ stats'.successRate.hundredths * stats'.totalTrades =
                 stats'.successfulTrades * 100 * 100
          /\ UNCHANGED <<execConfig, tradeHistory, inflight, result, started>>
      ]_vars

\* C10 witness: statistics taken over a history of two records.
C10_Witness ==
    /\ stats.totalTrades = 2
    /\ stats.successfulTrades = 2
    /\ stats.successRate.hundredths = 10000
    /\ Len(tradeHistory) = 2

\* The last n records of the history, oldest first.
LastRecords(history, n) ==
    SubSeq(history, Len(history) - Min2(n, Len(history)) + 1, Len(history))

\* C11: getTradeHistory(n) returns exactly the last min(n, length) records in
\* chronological order for every n >= 0, none for n = 0, and does not modify
\* the history.
C11_ReturnsLastRecords ==
    [][ recent'.count >= 0 =>
          /\ recent'.records = LastRecords(tradeHistory, recent'.count)
          /\ Len(recent'.records) = Min2(recent'.count, Len(tradeHistory))
          /\ UNCHANGED <<execConfig, tradeHistory, inflight, result, started>>
      ]_vars

\* The reasons a failed result can carry.
FailureReasons ==
    {BelowMinimum, NotImplemented, "Failed to get quote from Jupiter",
     "Failed to fetch quote", "Failed to parse quote"}

\* C12: executeBuy and executeSell never throw or reject: a call that begins
\* either returns at once or waits for its quote, a call that stops waiting
\* returns, and every returned value is a result with success; one without
\* success carries a reason (rejected or unparsable quote fetch, below
\* minimum and live mode included).
C12_FailuresAreReturned ==
    [][ /\ (started' # started =>
                \/ result'.call = started'
                \/ \E k \in inflight' : k.id = started')
        /\ (\A k \in inflight \ inflight' : result'.call = k.id)
        /\ (Returns =>
                /\ "success" \in DOMAIN result'.value
                /\ result'.value.success \in BOOLEAN
                /\ (~result'.value.success =>
                        /\ "reason" \in DOMAIN result'.value
                        /\ result'.value.reason \in FailureReasons)) ]_vars

\* C12 witness: the quote fetch of a call came back unparsable and the call
\* returned that as a failed result.
C12_Witness ==
    /\ result.call # 0
    /\ result.quote.kind = "rejected"
    /\ result.quote.message = "Failed to parse quote"
    /\ ~result.value.success
    /\ result.value.reason = "Failed to parse quote"

-----------------------------------------------------------------------------
(* Claims about main() and its modules (Spec, MarketSpec)                  *)

\* The executeSwap calls whose quote request is out at the Jupiter API.
JupiterRequests ==
    IF execConfig.network = "mainnet-beta" THEN inflight ELSE {}

\* C13: when the loaded configuration names a network other than
\* mainnet-beta, the TradeExecutor and the MarketData that main() created
\* run with that network and no quote request goes to the Jupiter API.
C13_ModulesRunOnConfiguredNetwork ==
    config.network # "mainnet-beta" =>
        /\ execConfig.network = config.network
        /\ marketConfig.network = config.network
        /\ JupiterRequests = {}

-----------------------------------------------------------------------------
(* Claims about the engine through its life (EngineLifecycleSpec)          *)

\* C14: after any sequence of analyzeMarket, updateConfig and reset calls,
\* priceHistory holds at most momentumPeriod prices.
C14_WindowWithinMomentumPeriod ==
    Len(priceHistory) <= engineConfig.momentumPeriod

\* The observation of the latest call lacks price or signalStrength.
Incomplete(md) ==
    "price" \notin DOMAIN md \/ "signalStrength" \notin DOMAIN md

\* C16: analyzeMarket given an observation that lacks price or
\* signalStrength fails with a ValidationError and leaves position,
\* positionSize, momentum, priceHistory and lastAction unchanged.
C16_IncompleteObservationRejected ==
    [][ (engineOp'.op = "analyzeMarket" /\ calls' # calls
             /\ Incomplete(marketData')) =>
          /\ engineOp'.completion = "ValidationError"
          /\ UNCHANGED <<currentPosition, positionSize, momentum,
                         priceHistory, lastAction>> ]_vars

\* The decisions a sequence of analyzeMarket calls returns on engine e, the
\* first call made at time t.
RECURSIVE DecisionsOf(_, _, _)
DecisionsOf(e, observations, t) ==
    IF observations = << >> THEN << >>
    ELSE LET r == analyzeMarket(e, Head(observations), t)
         IN  << r.decision >> \o DecisionsOf(r.engine, Tail(observations), t + 1)

\* Sequences of one or two observations: either price, a strong sell or a
\* strong buy signal.
ShortRuns ==
    LET probes == [price : Prices, signalStrength : {-7500, 7500},
                   keyLevels : {<< >>}, portfolioValue : {10000}]
    IN  { << a >> : a \in probes } \cup (probes \X probes)

C19_UpdateConfigMerges ==
    [][ /\ (engineOp'.op = "updateConfig" =>
               /\ DOMAIN engineConfig' = DOMAIN engineConfig
               /\ \A k \in DOMAIN engineOp'.newConfig :
                      engineConfig'[k] = engineOp'.newConfig[k]
               /\ \A k \in DOMAIN engineConfig \ DOMAIN engineOp'.newConfig :
                      engineConfig'[k] = engineConfig[k]
               /\ UNCHANGED <<currentPosition, positionSize, momentum,
                              priceHistory, lastAction>>)
        /\ ((calls' # calls /\ ~Incomplete(marketData')) =>
               /\ decision' =
                      analyzeMarket(ThisEngine, marketData', calls').decision
               /\ (decision'.reason = "inertia" =>
                      decision'.inertiaThreshold
                          = engineConfig.inertiaThreshold)
               /\ (decision'.reason = "overcame" =>
                      Abs(positionSize')
                          <= Mul(marketData'.portfolioValue,
                                 engineConfig.maxPositionSize))) ]_vars

\* C19 witness: after updateConfig raised inertiaThreshold to 0.5, a call
\* whose force would have passed the old threshold of 0.15 was refused
\* against the new one.
C19_Witness ==
    /\ engineOp.op = "analyzeMarket"
    /\ ~Incomplete(marketData)
    /\ decision.reason = "inertia"
    /\ decision.inertiaThreshold = 5000
    /\ Abs(decision.force) >= 1500

-----------------------------------------------------------------------------
(* Claims about the market data module (MarketSpec)                        *)

\* The stored history of a pair, empty while the pair has none.
HistoryOf(histories, pair) ==
    IF pair \in DOMAIN histories THEN histories[pair] ELSE << >>

\* C20: each pair's stored price history holds at most 100 prices, the most
\* recent ones in arrival order (the oldest is evicted first), and a
\* getMarketData call for one pair leaves the history and the last price of
\* every other pair unchanged.
C20_HistoryKeepsLatestHundred ==
    /\ [](\A p \in DOMAIN marketPriceHistory :
              Len(marketPriceHistory[p]) <= 100)
    /\ [][ \A pair \in Pairs : fetched'[pair] # fetched[pair] =>
              LET all == Append(HistoryOf(marketPriceHistory, pair),
                                observation'.price)
                  new == marketPriceHistory'[pair]
              IN  /\ observation'.pair = pair
                  /\ lastPrices'[pair] = observation'.price
                  /\ Len(new) = Min2(100, Len(all))
                  /\ new = SubSeq(all, Len(all) - Len(new) + 1, Len(all))
                  /\ \A q \in Pairs \ {pair} :
                         /\ (q \in DOMAIN marketPriceHistory'
                                <=> q \in DOMAIN marketPriceHistory)
                         /\ (q \in DOMAIN lastPrices'
                                <=> q \in DOMAIN lastPrices)
                         /\ (q \in DOMAIN marketPriceHistory =>
                                /\ marketPriceHistory'[q]
                                       = marketPriceHistory[q]
                                /\ lastPrices'[q] = lastPrices[q]) ]_vars

\* C20 witness: one pair was observed 102 times and its history starts at
\* its third price, another pair holds its single price.
C20_Witness ==
    /\ fetched["SOL-USDC"] = 102
    /\ Len(HistoryOf(marketPriceHistory, "SOL-USDC")) = 100
    /\ marketPriceHistory["SOL-USDC"][1] = 10150
    /\ marketPriceHistory["SOL-USDC"][100] = lastPrices["SOL-USDC"]
    /\ Len(HistoryOf(marketPriceHistory, "ETH-USDC")) = 1


-----------------------------------------------------------------------------
(* Claims about the hot reload of config.json (ReloadSpec, Spec)           *)

\* the step is a reloadConfig run
Reloads == reloads' = reloads + 1

Observes == calls' = calls + 1

\* C22 (as stated): every cycle of the trading loop observes a pair of the
\* configuration loaded last, on a timer whose delay is that configuration's
\* trading.updateInterval.
C22_CyclesFollowReloadedPairs ==
    [][ Observes =>
            /\ \E i \in DOMAIN config.trading.pairs :
                   marketData'.pair = config.trading.pairs[i]
            /\ tradingLoop.delay = config.trading.updateInterval
      ]_vars

-----------------------------------------------------------------------------
(* Claims about the forces of the engine (GravitySpec, EngineSpec)         *)

\* the levels of the latest observation that lie at a distance from its price
LevelsApart ==
    { i \in DOMAIN marketData.keyLevels :
          marketData.keyLevels[i].price # marketData.price }

\* gravitationalConstant x volume / distance^2 of level i, counted positive
\* for a level above the price and negative for a level below
Attraction(i) ==
    LET level    == marketData.keyLevels[i]
        distance == Abs(marketData.price - level.price)
        pull     == (engineConfig.gravitationalConstant * level.volume)
                        \div (distance * distance)
    IN  IF level.price > marketData.price THEN pull ELSE -pull

RECURSIVE SumOver(_)
SumOver(levels) ==
    IF levels = {} THEN 0
    ELSE LET i == CHOOSE j \in levels : TRUE
         IN  Attraction(i) + SumOver(levels \ {i})

\* the decision of the latest call reports a gravitationalForce
ReportsGravity == "gravitationalForce" \in DOMAIN decision

C24_SupportBelowPullsUp ==
    ( /\ ReportsGravity
      /\ marketData.price = 95
      /\ marketData.keyLevels = << [price |-> 94, volume |-> 10000] >>
      /\ engineConfig.gravitationalConstant = 10 )
        => decision.gravitationalForce = 10000

\* the window made of the last min(k, momentumPeriod) of the k prices fed
WindowOfFed ==
    LET k == Len(fed.prices)
        n == Min2(k, engineConfig.momentumPeriod)
    IN  SubSeq(fed.prices, k - n + 1, k)

\* C25: after the k-th analyzeMarket call since construction or the last
\* reset, with momentumPeriod fixed over these calls, the momentum is 0 when
\* k = 1 and otherwise tradingMass x (price - oldest) / oldest, oldest being
\* the first price of the window of the last min(k, momentumPeriod) prices.
C25_MomentumFromWindow ==
    (engineOp.op = "analyzeMarket" /\ fed.fixed) =>
        LET k      == Len(fed.prices)
            price  == fed.prices[k]
            oldest == WindowOfFed[1]
        IN  /\ k = 1 => momentum = 0
            /\ k > 1 => momentum * oldest
                            = engineConfig.tradingMass * (price - oldest)
            /\ "momentum" \in DOMAIN decision => decision.momentum = momentum

\* the third call after a reset: the first price has left the window and
\* the momentum is taken from the second
C25_Witness ==
    /\ engineOp.op = "analyzeMarket"
    /\ fed.fixed
    /\ fed.prices = << 125, 100, 125 >>
    /\ engineConfig.momentumPeriod = 2
    /\ engineConfig.tradingMass = 10000
    /\ momentum = 2500

\* the gravitational force of the latest observation, from its levels
GravityOfLatest == Max2(-10000, Min2(10000, SumOver(LevelsApart)))

\* the latest call passed the inertia gate
PassedGate == decision.reason = "overcame"

\* the engine's positionSize before the latest call
SizeBefore ==
    IF PassedGate THEN decision.positionSize - decision.positionChange
    ELSE decision.positionSize

\* force = 0.6 signalStrength + 0.2 momentum + 0.2 gravitationalForce in
\* every decision; acceleration = force / tradingMass behind the gate; the
\* weak signal 0.10 alone gives force 0.06 and hold, the strong signal 0.75
\* alone gives force 0.45
ForcesAsWeighted ==
    /\ decision.force * 10
           = 6 * marketData.signalStrength + 2 * momentum
                 + 2 * GravityOfLatest
    /\ PassedGate =>
           decision.acceleration * engineConfig.tradingMass
               = decision.force * 10000
    /\ ( /\ engineConfig.inertiaThreshold = 1500
         /\ momentum = 0
         /\ GravityOfLatest = 0
         /\ marketData.signalStrength = 1000 )
           => decision.force = 600 /\ decision.action = "hold"
    /\ ( /\ engineConfig.inertiaThreshold = 1500
         /\ momentum = 0
         /\ GravityOfLatest = 0
         /\ marketData.signalStrength = 7500 )
           => decision.force = 4500 /\ PassedGate

\* the strong signal 0.75 alone, at the threshold 0.15
StrongSignalAlone ==
    /\ calls > 0
    /\ engineConfig.inertiaThreshold = 1500
    /\ momentum = 0
    /\ GravityOfLatest = 0
    /\ marketData.signalStrength = 7500

\* C26 (as stated): the forces are weighted as above, and the strong signal
\* 0.75 alone gives action buy and position long.
C26_StrongSignalBuys ==
    calls > 0 =>
        /\ ForcesAsWeighted
        /\ StrongSignalAlone
               => decision.action = "buy" /\ decision.position = "long"

\* C26 (amended): the forces are weighted as above, and the strong signal
\* 0.75 alone gives action buy and position long when the size before the
\* call lies more than 0.01 below maxPositionSize x portfolioValue and the
\* acceleration exceeds 0.01.
C26_StrongSignalBuysWithRoom ==
    calls > 0 =>
        /\ ForcesAsWeighted
        /\ ( /\ StrongSignalAlone
             /\ SizeBefore + 100 < LimitOfLatestCall
             /\ decision.acceleration > 100 )
               => decision.action = "buy" /\ decision.position = "long"

\* the strong signal alone on a fresh engine with room: force 0.45, buy, long
C26_Witness ==
    /\ calls = 1
    /\ StrongSignalAlone
    /\ LimitOfLatestCall = 3000
    /\ decision.force = 4500
    /\ decision.acceleration = 4500
    /\ decision.action = "buy"
    /\ decision.position = "long"

-----------------------------------------------------------------------------
(* Claims about the decision behind the inertia gate (EngineSpec)          *)

\* the step is an analyzeMarket call that passes the inertia gate
PassesGate == calls' = calls + 1 /\ decision'.reason = "overcame"

\* C27: behind the gate, with `new` the clamped new size and `old` the size
\* before the call: new > old + 0.01 gives buy and long; new < old - 0.01
\* gives sell and short, neutral or long as new is negative, zero or
\* positive; anything else gives hold and leaves the position label.
C27_ActionFollowsDeadBand ==
    [][ PassesGate =>
            LET new == decision'.positionSize
                old == positionSize
            IN  /\ decision'.position = currentPosition'
                /\ new > old + 100 =>
                       decision'.action = "buy" /\ currentPosition' = "long"
                /\ new < old - 100 =>
                       /\ decision'.action = "sell"
                       /\ new < 0 => currentPosition' = "short"
                       /\ new = 0 => currentPosition' = "neutral"
                       /\ new > 0 => currentPosition' = "long"
                /\ (new <= old + 100 /\ new >= old - 100) =>
                       /\ decision'.action = "hold"
                       /\ currentPosition' = currentPosition
      ]_vars

\* a sale of the whole position: down to exactly zero, labelled neutral
C27_Witness ==
    /\ PassedGate
    /\ decision.action = "sell"
    /\ decision.positionChange < -100
    /\ decision.positionSize = 0
    /\ currentPosition = "neutral"

\* C28: behind the gate, a clamped new size within 0.01 of the old size
\* gives hold, and the engine's positionSize becomes the new size.
C28_HoldCommitsNewSize ==
    [][ ( /\ PassesGate
          /\ decision'.positionSize <= positionSize + 100
          /\ decision'.positionSize >= positionSize - 100 )
            => /\ decision'.action = "hold"
               /\ positionSize' = decision'.positionSize
               /\ decision'.positionSize
                      = applyPositionLimits(
                            engineConfig, marketData'.portfolioValue,
                            positionSize + decision'.acceleration)
      ]_vars

\* a hold behind the gate that moved the size
C28_Witness ==
    /\ PassedGate
    /\ decision.action = "hold"
    /\ decision.positionChange # 0
    /\ positionSize = decision.positionSize

\* C29 (as stated): a Decision carries riskManagement exactly when its
\* action is not hold.
C29_RiskOnlyWhenTrading ==
    calls > 0 => (CarriesRiskManagement <=> decision.action # "hold")

\* C29 (amended): a Decision carries riskManagement exactly when its force
\* reached the inertia threshold, whatever its action; every buy and sell
\* carries it.
C29_RiskWheneverGatePasses ==
    calls > 0 =>
        /\ CarriesRiskManagement
               <=> Abs(decision.force) >= engineConfig.inertiaThreshold
        /\ decision.action # "hold" => CarriesRiskManagement

\* a hold behind the gate, carrying riskManagement
C29_Witness ==
    /\ calls > 0
    /\ decision.action = "hold"
    /\ Abs(decision.force) >= engineConfig.inertiaThreshold
    /\ CarriesRiskManagement

\* C30: behind the gate, also for a hold, riskManagement is stopLoss =
\* |new| x riskReactionRatio x 0.5, takeProfit = |new| x riskReactionRatio x
\* 1.5 and hedgeSize = |new| x riskReactionRatio x 0.2, with `new` the
\* clamped new size.
C30_RiskFromClampedSize ==
    PassedGate =>
        LET exposure == Abs(decision.positionSize)
                            * engineConfig.riskReactionRatio
        IN  /\ CarriesRiskManagement
            /\ decision.positionSize
                   = applyPositionLimits(
                         engineConfig, marketData.portfolioValue,
                         SizeBefore + decision.acceleration)
            /\ decision.riskManagement.stopLoss * 20000 = exposure
            /\ decision.riskManagement.takeProfit * 20000 = exposure * 3
            /\ decision.riskManagement.hedgeSize * 50000 = exposure

\* a hold behind the gate with a clamped size and a nonzero hedge
C30_Witness ==
    /\ PassedGate
    /\ decision.action = "hold"
    /\ decision.positionSize = LimitOfLatestCall
    /\ decision.riskManagement.hedgeSize > 0
    /\ decision.riskManagement.stopLoss > 0

-----------------------------------------------------------------------------
(* Claims about the engine's record of its last action (EngineSpec)        *)

\* the step is an analyzeMarket call
CallsAnalyzeMarket == calls' = calls + 1

\* C31: an analyzeMarket call records lastAction (action, timestamp, price)
\* exactly when its action is not hold; a call that returns hold leaves
\* lastAction as it was.
C31_LastActionOnlyWhenTrading ==
    [][ CallsAnalyzeMarket =>
            /\ decision'.action # "hold" =>
                   lastAction' = [action |-> decision'.action,
                                  timestamp |-> calls',
                                  price |-> marketData'.price]
            /\ decision'.action = "hold" => lastAction' = lastAction
      ]_vars

-----------------------------------------------------------------------------
(* Claims about the signal of the market data module (MarketSpec)          *)

\* the pair of the latest observation and the number of observations made of
\* it so far
ObservedPair == observation.pair

TimesObserved == fetched[ObservedPair]

\* twenty times the mean of the last twenty prices of the observed pair
TwentySMA20 ==
    LET h == marketPriceHistory[ObservedPair]
    IN  sumOf(SubSeq(h, Len(h) - 19, Len(h)))

\* C32: the signalStrength of an observation is 0 for the first 19
\* observations of its pair; from the 20th on it is (price - SMA20) / SMA20
\* x 10 (to within the 1/10000 it is counted in) when that lies between -1
\* and 1, -1 when it lies below and 1 when it lies above; it always lies
\* between -1 and 1.
C32_SignalFromSMA20 ==
    observation # NoObservation =>
        LET signal == observation.signalStrength
            \* 20 x (price - SMA20) and 20 x SMA20
            rise == 20 * observation.price - TwentySMA20
            base == TwentySMA20
        IN  /\ signal >= -10000 /\ signal <= 10000
            /\ TimesObserved < 20 => signal = 0
            /\ TimesObserved >= 20 =>
                   /\ base > 0
                   /\ rise * 10 <= -base => signal = -10000
                   /\ rise * 10 >= base => signal = 10000
                   /\ (rise * 10 > -base /\ rise * 10 < base) =>
                          /\ signal * base <= rise * 100000
                          /\ rise * 100000 < (signal + 1) * base

\* the 20th observation of a pair whose price fell by 1 each time: price 80,
\* SMA20 89.5, a deviation of -10.6%, signal -1; and an earlier one of
\* another pair, with signal 0
C32_Witness ==
    /\ observation # NoObservation
    /\ TimesObserved = 20
    /\ observation.price = 8000
    /\ TwentySMA20 = 20 * 8950
    /\ observation.signalStrength = -10000
    /\ \E q \in Pairs : fetched[q] > 0 /\ fetched[q] < 20

-----------------------------------------------------------------------------
(* Claims about the watcher of config.json (WatchSpec)                     *)

\* change event i is followed by no other within 500 ms: it ends a burst
EndsBurst(i) ==
    \A j \in DOMAIN changes :
        j > i => changes[j] > changes[i] + DEBOUNCE_MS

\* C33: a burst of change events, each less than 500 ms after the one
\* before, causes exactly one reloadConfig run, 500 ms after its last event:
\* every run comes 500 ms after the latest change event before it, no two
\* runs come at the same time, and once more than 500 ms have passed since
\* the last event of a burst, a run was made 500 ms after that event.
C33_BurstReloadsOnce ==
    /\ \A k \in DOMAIN runs :
           \E i \in DOMAIN changes :
               /\ runs[k] = changes[i] + DEBOUNCE_MS
               /\ \A j \in DOMAIN changes :
                      changes[j] < runs[k] => changes[j] <= changes[i]
    /\ \A k1, k2 \in DOMAIN runs : k1 # k2 => runs[k1] # runs[k2]
    /\ \A i \in DOMAIN changes :
           (EndsBurst(i) /\ clock > changes[i] + DEBOUNCE_MS)
               => \E k \in DOMAIN runs : runs[k] = changes[i] + DEBOUNCE_MS
    /\ Len(runs) = reloads

\* a burst of three change events 250 ms apart, and the one run it caused
C33_Witness ==
    /\ Len(changes) = 3
    /\ changes[2] = changes[1] + 250
    /\ changes[3] = changes[2] + 250
    /\ runs = << changes[3] + DEBOUNCE_MS >>
    /\ clock > changes[3] + DEBOUNCE_MS
    /\ reloads = 1

-----------------------------------------------------------------------------
(* Claims about the engine's position label (EngineSpec)                   *)

\* C34: after any sequence of analyzeMarket calls the position label agrees
\* with the sign of positionSize: long implies positionSize > 0, short
\* implies positionSize < 0, neutral implies positionSize = 0.
C34_LabelAgreesWithSign ==
    /\ currentPosition = "long" => positionSize > 0
    /\ currentPosition = "short" => positionSize < 0
    /\ currentPosition = "neutral" => positionSize = 0

-----------------------------------------------------------------------------
(* Claims about what the trading loop hands to the executor (Spec)         *)

\* the step is one in which a cycle enters executeBuy or executeSell
Submits == started' = started + 1

\* the arguments of the executeBuy/executeSell call entered in this step
Submitted ==
    IF result'.call = started' THEN result'.args
    ELSE CHOOSE call \in inflight' : call.id = started'

\* C35: the amount a cycle submits to the executor, portfolioValue x the size
\* passed to executeBuy/executeSell, never exceeds maxPositionSize x
\* portfolioValue of that cycle.
C35_SubmittedWithinLimit ==
    [][ Submits =>
            Mul(Submitted.portfolioValue, Submitted.size)
                <= Mul(engineConfig.maxPositionSize,
                       Submitted.portfolioValue)
      ]_vars

-----------------------------------------------------------------------------
(* Claims about what the executor's history holds (ExecutorSpec)           *)

\* C36: every record of the trade history has success = true and dryRun =
\* true; an executeBuy/executeSell call that returns without success (too
\* small, no quote, a failed request, live mode) leaves the history as it
\* was; so getStatistics reports successfulTrades = dryRunTrades =
\* totalTrades.
C36_HistoryHoldsDryRunSuccesses ==
    /\ [](/\ \A i \in DOMAIN tradeHistory :
                 /\ tradeHistory[i].success = TRUE
                 /\ tradeHistory[i].dryRun = TRUE
          /\ LET s == getStatistics(tradeHistory)
             IN  /\ s.successfulTrades = s.totalTrades
                 /\ s.dryRunTrades = s.totalTrades
          /\ stats # NoStats =>
                 /\ stats.successfulTrades = stats.totalTrades
                 /\ stats.dryRunTrades = stats.totalTrades)
    /\ [][ (Returns /\ ~result'.value.success)
               => tradeHistory' = tradeHistory ]_vars

\* statistics over one recorded dry run, taken after a live-mode attempt
\* that went unrecorded
C36_Witness ==
    /\ stats # NoStats
    /\ stats.totalTrades = 1
    /\ stats.successfulTrades = 1
    /\ stats.dryRunTrades = 1
    /\ Len(tradeHistory) = 1
    /\ started = 2
    /\ result.call = 2
    /\ result.value.success = FALSE
    /\ result.value.reason = NotImplemented

\* C37: a cycle invokes the executor exactly when its decision's action is
\* buy or sell, once, by executeBuy for a buy and by executeSell for a sell,
\* with |positionChange| and the cycle's portfolioValue, and never on hold;
\* a buy has positionChange > 0 and a sell has positionChange < 0; no other
\* step of main() invokes the executor.
C37_ExecutorInvokedOnBuyAndSell ==
    [][ /\ started' \in {started, started + 1}
        /\ Submits => Observes
        /\ Observes =>
               /\ Submits <=> decision'.action \in {"buy", "sell"}
               /\ decision'.action = "buy" =>
                      /\ decision'.positionChange > 0
                      /\ Submitted.inputMint = SOL_MINT
                      /\ Submitted.outputMint = USDC_MINT
                      /\ Submitted.size = decision'.positionChange
                      /\ Submitted.portfolioValue
                             = marketData'.portfolioValue
               /\ decision'.action = "sell" =>
                      /\ decision'.positionChange < 0
                      /\ Submitted.inputMint = USDC_MINT
                      /\ Submitted.outputMint = SOL_MINT
                      /\ Submitted.size = -decision'.positionChange
                      /\ Submitted.portfolioValue
                             = marketData'.portfolioValue
      ]_vars

\* a cycle that bought and a cycle that sold, each through one executor call
C37_Witness ==
    /\ cycle[1].pc = "done"
    /\ cycle[1].action = "buy"
    /\ cycle[1].executed
    /\ cycle[2].pc \in {"quote", "done"}
    /\ cycle[2].action = "sell"
    /\ cycle[2].executed
    /\ started = 2

-----------------------------------------------------------------------------
(* Claims about the periodic updates of the market data module             *)
(* (UpdatesSpec)                                                           *)

\* C38: after stopUpdates has returned (and startUpdates was not called
\* again) no periodic tick is started and no update callback is invoked,
\* whatever startUpdates and stopUpdates calls came before.
C38_NoTickAfterStop ==
    [][ updates.stopped =>
            /\ updates'.ticks = updates.ticks
            /\ updates'.callbacks = updates.callbacks
      ]_vars

-----------------------------------------------------------------------------
(* Claims about a reload of a config.json that does not parse (WatchSpec)  *)

\* C39: a reloadConfig run made while the watched config.json cannot be
\* parsed leaves the executor's dryRun and minTradeSize and every engine
\* parameter as they were before the run.
C39_UnparseableFileChangesNothing ==
    [][ (Reloads /\ mainOp'.files[1] = Unparseable) =>
            /\ execConfig'.dryRun = execConfig.dryRun
            /\ execConfig'.minTradeSize = execConfig.minTradeSize
            /\ engineConfig' = engineConfig
      ]_vars


=============================================================================
